---- MODULE Spec2Model ----
(***************************************************************************)
(* Verification model of the QuestDB <-> Deephaven bridge:                 *)
(*   - write side: QuestDBWriterQueued (questdb_writer_queued.py)          *)
(*   - read side:  QuestDBBackend      (qdb_backend.py)                    *)
(*     provider calls (SpecProvider), paging (SpecPage), the growth        *)
(*     watcher (SpecWatch), the registry and its threads (SpecRegistry,    *)
(*     SpecBackend)                                                        *)
(* Each subsystem has its own specification over the shared variable set;  *)
(* the variables of the other subsystems stay at their initial values.     *)
(***************************************************************************)
EXTENDS Integers, Sequences, FiniteSets, TLC

\* ------------------------------------------------------------------ bounds
MaxCap == 2
MaxBatch == 2
MaxEvents == 3
MaxRows == 3
MaxPage == 2
MaxTxns == 2
MaxTxnRows == 1
MaxInst == 2
MaxThreads == 2
MaxCols == 2
MaxStr == 2
MaxLevels == 1
MaxCloses == 3
MaxPrior == 1

\* ------------------------------------------------------------------ helpers
Min(a, b) == IF a <= b THEN a ELSE b
Max(a, b) == IF a >= b THEN a ELSE b
Range(s) == {s[i] : i \in 1..Len(s)}

RECURSIVE SeqSum(_)
SeqSum(s) == IF s = <<>> THEN 0 ELSE Head(s) + SeqSum(Tail(s))

\* =========================================================================
\*  Write side: QuestDBWriterQueued
\* =========================================================================
VARIABLES
    max_queue_size,   \* self.max_queue_size (capacity of the asyncio.Queue)
    batch_size,       \* self.batch_size
    queue,            \* self.queue: FIFO of ILP lines (identified by event id)
    sock,             \* self.sock: "none" (None) or "conn" (a connected socket)
    running,          \* self.running
    writer_task,      \* self.writer_task: "none" or "task"
    dropped_count,    \* self._dropped_count
    wpc,              \* position of the _writer_loop task
    batch,            \* local `batch` of _writer_loop
    stop_pc,          \* position of a stop() call: "idle", "await", "returned"
    net,              \* environment: "flaky" (connect/send may fail) or "up"
    events,           \* history: number of write_* calls made so far
    accepted,         \* history: ids put into the queue by a producer
    sent,             \* history: batches handed to a successful sendall, in order
    dropped_ids,      \* history: ids whose put_nowait raised QueueFull, in order
    drained,          \* history: the writer has taken an entry off the queue
    offered,          \* history: ids whose line was built and handed to put_nowait
    retried,          \* history: ids that were in a batch whose sendall failed
    write_raised,     \* history: a write_* call raised to its producer
    tasks,            \* history: _writer_loop tasks created; start() called again
    at_stop           \* history: the ids accepted so far when stop() was called

wvars == <<max_queue_size, batch_size, queue, sock, running, writer_task,
           dropped_count, wpc, batch, stop_pc, net, events, accepted, sent,
           dropped_ids, drained, offered, retried>>

\* =========================================================================
\*  Read side, synchronous provider calls of QuestDBBackend
\* =========================================================================
VARIABLES
    tbl,              \* the store's table: rows in insertion order, [ts, id]
    pcall             \* history: the last provider call, its inputs and outcome

pvars == <<tbl, pcall>>

\* =========================================================================
\*  Read side, one growth watcher thread (_wal_watch_loop) and the store's
\*  transaction log
\* =========================================================================
VARIABLES
    txns,             \* wal_transactions(table): [rows, rc] per sequencerTxn
    applied,          \* number of transactions already applied to the table
    wal_enabled,      \* the table has a transaction log
    stop_event,       \* the watcher's stop_event
    watch             \* the watcher's locals, position and callback history

kvars == <<txns, applied, wal_enabled, stop_event, watch>>

\* =========================================================================
\*  Read side, the registry of backends and their watcher threads
\* =========================================================================
VARIABLES
    registry,         \* _GLOBAL_BACKENDS_BY_TABLE[name]: an instance id, 0 if absent
    global_lock,      \* _GLOBAL_BACKEND_LOCK: its holder, "free" if none
    inst_lock,        \* instance -> holder of instance._lock, "free" if none
    active,           \* instance -> thread in _active_threads[name], 0 if absent
    n_inst,           \* number of QuestDBBackend instances constructed
    thread,           \* thread id -> "new", "live" or "ended"
    stop_ev,          \* thread id -> its stop_event is set
    caller,           \* caller thread -> position and locals of its current call
    unsubs,           \* unsubscribe closures handed out: <<instance, thread>>
    cleaned,          \* history: a cleanup or cleanup_all has run
    returned,         \* history: instances returned by get_or_create
    after_cleanup,    \* history: registry and live threads when cleanup_all returned
    raised            \* history: calls that raised to their caller

bvars == <<registry, global_lock, inst_lock, active, n_inst, thread, stop_ev,
           caller, unsubs, cleaned, returned, after_cleanup, raised>>

\* =========================================================================
\*  Write side, the ILP text built by QuestDBWriterQueued and the SDK writer
\*  (questdb_writer.py)
\* =========================================================================
VARIABLES
    wire,             \* history: the lines built, the batch joined and its parse
    sdk               \* the SDK writer: self._sender and the history of close()

xvars == <<wire, sdk>>

\* =========================================================================
\*  Read side, references to backend instances held outside the registry
\* =========================================================================
VARIABLES
    dropped           \* instances whose user has let go of its reference

gvars == <<dropped>>

vars == <<wvars, write_raised, tasks, at_stop, pvars, kvars, bvars, xvars, gvars>>

\* What each subsystem leaves alone
notWriter == <<write_raised, tasks, at_stop, pvars, kvars, bvars, xvars, gvars>>
notStop == <<write_raised, tasks, pvars, kvars, bvars, xvars, gvars>>
notStart == <<write_raised, at_stop, pvars, kvars, bvars, xvars, gvars>>
notProducer == <<tasks, at_stop, pvars, kvars, bvars, xvars, gvars>>
notProvider == <<wvars, write_raised, tasks, at_stop, kvars, bvars, xvars, gvars>>
notWatcher == <<wvars, write_raised, tasks, at_stop, pvars, bvars, xvars, gvars>>
notBackend == <<wvars, write_raised, tasks, at_stop, pvars, kvars, xvars, gvars>>
notWire == <<wvars, write_raised, tasks, at_stop, pvars, kvars, bvars, sdk, gvars>>
notRefs == <<wvars, write_raised, tasks, at_stop, pvars, kvars, xvars>>
notSdk == <<wvars, write_raised, tasks, at_stop, pvars, kvars, bvars, wire, gvars>>

\* asyncio.Queue.full() for maxsize > 0
QueueFullLate(q) == Len(q) > max_queue_size

QueueFull(q) == Len(q) >= max_queue_size

\* try: queue.put_nowait(item)  except QueueFull: _dropped_count += 1
\* Result: the queue, the counter and the ids dropped, after the attempt.
PutNowaitNoCount(st, item) ==
    IF QueueFull(st.q)
    THEN [st EXCEPT !.lost = Append(@, item)]
    ELSE [st EXCEPT !.q = Append(@, item)]

PutNowait(st, item) ==
    IF QueueFull(st.q)
    THEN [st EXCEPT !.n = @ + 1, !.lost = Append(@, item)]
    ELSE [st EXCEPT !.q = Append(@, item)]

\* for item in batch: put_nowait(item) / count the drop
RECURSIVE Requeue(_, _)
Requeue(st, items) ==
    IF items = <<>> THEN st
    ELSE Requeue(PutNowait(st, Head(items)), Tail(items))

\* The event loop runs one coroutine at a time: a producer coroutine can run
\* only while the writer task is suspended at an await (or not started/ended).
WriterSuspended == wpc \in {"none", "conn_sleep", "get", "drain", "backoff", "done"}

\* No line built yet; the SDK writer not constructed
XIdle ==
    /\ wire = [lines |-> <<>>, joined |-> FALSE, parsed |-> <<>>]
    /\ sdk = [sender |-> "none", made |-> FALSE, protocol |-> "none",
              verbose |-> FALSE, written |-> 0, pending |-> 0,
              closes |-> 0, exits |-> 0, released |-> 0, raised |-> FALSE]

\* The provider state before any call: an empty table
PIdle ==
    /\ tbl = <<>>
    /\ pcall = [op |-> "none"]

\* The watcher's locals before the thread runs (last_size = 0, last_txn_id = 0,
\* use_wal_tracking = False) and an empty callback history; poll_visible is
\* the number of rows visible in the table when the current poll iteration began,
\* late_cb that a size was delivered after the stop event was set
WatchLocals(pc) ==
    [pc |-> pc, last_size |-> 0, last_txn_id |-> 0, use_wal_tracking |-> FALSE,
     current_size |-> 0, sizes |-> <<>>, succ |-> 0, fail |-> 0,
     last_act |-> "none", faults |-> {}, poll_visible |-> 0, late_cb |-> FALSE,
     full_count |-> FALSE]

\* No watcher thread, an empty transaction log
KIdle ==
    /\ txns = <<>>
    /\ applied = 0
    /\ wal_enabled = TRUE
    /\ stop_event = FALSE
    /\ watch = WatchLocals("idle")

\* The threads of the embedding process that call into the backend
Callers == {"c1", "c2"}

\* A caller between calls, holding the backend instance it last obtained
CallerIdle(i) == [pc |-> "idle", inst |-> i, ret |-> 0, old |-> 0, t |-> 0, todo |-> 0]

\* Module load: an empty registry, no instance, no thread
BIdle ==
    /\ registry = 0
    /\ global_lock = "free"
    /\ inst_lock = [i \in 1..MaxInst |-> "free"]
    /\ active = [i \in 1..MaxInst |-> 0]
    /\ n_inst = 0
    /\ thread = [t \in 1..MaxThreads |-> "new"]
    /\ stop_ev = [t \in 1..MaxThreads |-> FALSE]
    /\ caller = [c \in Callers |-> CallerIdle(0)]
    /\ unsubs = {}
    /\ cleaned = FALSE
    /\ returned = {}
    /\ after_cleanup = [done |-> FALSE]
    /\ raised = {}
    /\ dropped = {}

\* QuestDBWriterQueued.__init__
WStartWith(c, b) ==
    /\ max_queue_size = c
    /\ batch_size = b
    /\ queue = <<>>
    /\ sock = "none"
    /\ running = TRUE
    /\ writer_task = "none"
    /\ dropped_count = 0
    /\ wpc = "none"
    /\ batch = <<>>
    /\ stop_pc = "idle"
    /\ net = "flaky"
    /\ events = 0
    /\ accepted = {}
    /\ sent = <<>>
    /\ dropped_ids = <<>>
    /\ drained = FALSE
    /\ offered = {}
    /\ retried = {}
    /\ write_raised = FALSE
    /\ tasks = [created |-> 0, again |-> FALSE]
    /\ at_stop = {}

\* The outer  try: ... except Exception as e: print(...)  of a write_*
\* coroutine: does an exception raised in the body reach the producer?
OuterExceptMissing(body_raises) == body_raises

OuterExcept(body_raises) == FALSE

\* Body shared by the three write_* coroutines: build the line (which raises on
\* a malformed event, caught by the outer except), then put_nowait / count.
Enqueue(wellformed) ==
    /\ WriterSuspended
    /\ events < MaxEvents
    /\ events' = events + 1
    /\ IF wellformed
       THEN LET st == PutNowait([q |-> queue, n |-> dropped_count, lost |-> dropped_ids],
                                events + 1)
            IN /\ queue' = st.q
               /\ dropped_count' = st.n
               /\ dropped_ids' = st.lost
               /\ accepted' = IF Len(st.q) > Len(queue)
                              THEN accepted \cup {events + 1} ELSE accepted
               /\ offered' = offered \cup {events + 1}
       ELSE UNCHANGED <<queue, dropped_count, dropped_ids, accepted, offered>>
    /\ write_raised' = (write_raised \/ OuterExcept(~wellformed))
    /\ UNCHANGED <<max_queue_size, batch_size, sock, running, writer_task, wpc,
                   batch, stop_pc, net, sent, drained, retried>>
    /\ UNCHANGED notProducer

write_trade == \E wellformed \in BOOLEAN : Enqueue(wellformed)

write_orderbook == \E wellformed \in BOOLEAN : Enqueue(wellformed)

write_orderbook_compact == \E wellformed \in BOOLEAN : Enqueue(wellformed)

\* if not self.writer_task: self.writer_task = asyncio.create_task(...)
\* Result: self.writer_task and the number of tasks created so far
CreateTaskUnchecked(wt, n) == [writer_task |-> "task", created |-> n + 1]

CreateTask(wt, n) ==
    IF wt = "none" THEN [writer_task |-> "task", created |-> n + 1]
    ELSE [writer_task |-> wt, created |-> n]

\* start(): create the writer task unless there is one; the coroutine has no
\* await, so it runs as one step of the event loop
start ==
    /\ WriterSuspended
    /\ LET r == CreateTask(writer_task, tasks.created)
       IN /\ writer_task' = r.writer_task
          /\ wpc' = IF writer_task = "none" THEN "top" ELSE wpc
          /\ tasks' = [created |-> r.created,
                       again |-> tasks.again \/ writer_task # "none"]
    /\ UNCHANGED <<max_queue_size, batch_size, queue, sock, running, dropped_count,
                   batch, stop_pc, net, events, accepted, sent, dropped_ids, drained, offered, retried>>
    /\ UNCHANGED notStart

\* while self.running: ... if not self.sock: self._connect()
WriterTopNoConnect ==
    /\ wpc = "top"
    /\ wpc' = IF ~running THEN "done" ELSE "get"
    /\ UNCHANGED <<max_queue_size, batch_size, queue, sock, running, writer_task,
                   dropped_count, batch, stop_pc, net, events, accepted, sent,
                   dropped_ids, drained, offered, retried>>
    /\ UNCHANGED notWriter

WriterTop ==
    /\ wpc = "top"
    /\ wpc' = IF ~running THEN "done"
              ELSE IF sock = "none" THEN "connecting" ELSE "get"
    /\ UNCHANGED <<max_queue_size, batch_size, queue, sock, running, writer_task,
                   dropped_count, batch, stop_pc, net, events, accepted, sent,
                   dropped_ids, drained, offered, retried>>
    /\ UNCHANGED notWriter

\* _connect() succeeded: self.sock is a connected socket
ConnectOk ==
    /\ wpc = "connecting"
    /\ sock' = "conn"
    /\ wpc' = "get"
    /\ UNCHANGED <<max_queue_size, batch_size, queue, running, writer_task,
                   dropped_count, batch, stop_pc, net, events, accepted, sent,
                   dropped_ids, drained, offered, retried>>
    /\ UNCHANGED notWriter

\* _connect() failed: self.sock = None; await asyncio.sleep(1); continue
ConnectFail ==
    /\ wpc = "connecting"
    /\ net = "flaky"
    /\ sock' = "none"
    /\ wpc' = "conn_sleep"
    /\ UNCHANGED <<max_queue_size, batch_size, queue, running, writer_task,
                   dropped_count, batch, stop_pc, net, events, accepted, sent,
                   dropped_ids, drained, offered, retried>>
    /\ UNCHANGED notWriter

\* asyncio.sleep(...) returned: back to the loop condition
SleepDone ==
    /\ wpc \in {"conn_sleep", "backoff"}
    /\ wpc' = "top"
    /\ UNCHANGED <<max_queue_size, batch_size, queue, sock, running, writer_task,
                   dropped_count, batch, stop_pc, net, events, accepted, sent,
                   dropped_ids, drained, offered, retried>>
    /\ UNCHANGED notWriter

\* await asyncio.wait_for(self.queue.get(), timeout=0.1) timed out: continue
GetTimeout ==
    /\ wpc = "get"
    /\ queue = <<>>
    /\ wpc' = "top"
    /\ UNCHANGED <<max_queue_size, batch_size, queue, sock, running, writer_task,
                   dropped_count, batch, stop_pc, net, events, accepted, sent,
                   dropped_ids, drained, offered, retried>>
    /\ UNCHANGED notWriter

\* await asyncio.wait_for(self.queue.get(), ...) delivered the head entry
GetFirst ==
    /\ wpc = "get"
    /\ queue # <<>>
    /\ batch' = <<Head(queue)>>
    /\ queue' = Tail(queue)
    /\ drained' = TRUE
    /\ wpc' = "drain"
    /\ UNCHANGED <<max_queue_size, batch_size, sock, running, writer_task,
                   dropped_count, stop_pc, net, events, accepted, sent, dropped_ids, offered, retried>>
    /\ UNCHANGED notWriter

\* while len(batch) < batch_size: get_nowait() until QueueEmpty
DrainAll ==
    /\ wpc = "drain"
    /\ batch' = batch \o queue
    /\ queue' = <<>>
    /\ drained' = TRUE
    /\ wpc' = "sending"
    /\ UNCHANGED <<max_queue_size, batch_size, sock, running, writer_task,
                   dropped_count, stop_pc, net, events, accepted, sent, dropped_ids, offered, retried>>
    /\ UNCHANGED notWriter

Drain ==
    /\ wpc = "drain"
    /\ LET k == Min(batch_size - Len(batch), Len(queue))
       IN /\ batch' = batch \o SubSeq(queue, 1, k)
          /\ queue' = SubSeq(queue, k + 1, Len(queue))
          /\ drained' = TRUE
    /\ wpc' = "sending"
    /\ UNCHANGED <<max_queue_size, batch_size, sock, running, writer_task,
                   dropped_count, stop_pc, net, events, accepted, sent, dropped_ids, offered, retried>>
    /\ UNCHANGED notWriter

\* self.sock.sendall("".join(batch).encode()) returned
SendOk ==
    /\ wpc = "sending"
    /\ sent' = Append(sent, batch)
    /\ batch' = <<>>
    /\ wpc' = "top"
    /\ UNCHANGED <<max_queue_size, batch_size, queue, sock, running, writer_task,
                   dropped_count, stop_pc, net, events, accepted, dropped_ids, drained, offered, retried>>
    /\ UNCHANGED notWriter

\* sendall raised OSError: sock = None, re-queue the batch, sleep(0.1)
SendFailLosing ==
    /\ wpc = "sending"
    /\ net = "flaky"
    /\ sock' = "none"
    /\ batch' = <<>>
    /\ retried' = retried \cup Range(batch)
    /\ wpc' = "backoff"
    /\ UNCHANGED <<max_queue_size, batch_size, queue, running, writer_task,
                   dropped_count, stop_pc, net, events, accepted, sent, dropped_ids,
                   drained, offered>>
    /\ UNCHANGED notWriter

SendFail ==
    /\ wpc = "sending"
    /\ net = "flaky"
    /\ sock' = "none"
    /\ LET st == Requeue([q |-> queue, n |-> dropped_count, lost |-> dropped_ids], batch)
       IN /\ queue' = st.q
          /\ dropped_count' = st.n
          /\ dropped_ids' = st.lost
    /\ batch' = <<>>
    /\ retried' = retried \cup Range(batch)
    /\ wpc' = "backoff"
    /\ UNCHANGED <<max_queue_size, batch_size, running, writer_task, stop_pc, net,
                   events, accepted, sent, drained, offered>>
    /\ UNCHANGED notWriter

\* stop(): self.running = False; await self.writer_task
stopKeepsRunning ==
    /\ WriterSuspended
    /\ stop_pc = "idle"
    /\ stop_pc' = "await"
    /\ at_stop' = accepted
    /\ UNCHANGED <<max_queue_size, batch_size, queue, sock, running, writer_task,
                   dropped_count, wpc, batch, net, events, accepted, sent,
                   dropped_ids, drained, offered, retried>>
    /\ UNCHANGED notStop

stop ==
    /\ WriterSuspended
    /\ stop_pc = "idle"
    /\ running' = FALSE
    /\ stop_pc' = "await"
    /\ at_stop' = accepted
    /\ UNCHANGED <<max_queue_size, batch_size, queue, sock, writer_task,
                   dropped_count, wpc, batch, net, events, accepted, sent,
                   dropped_ids, drained, offered, retried>>
    /\ UNCHANGED notStop

\* stop() resumed: the task ended (or was never started); close the socket
StopReturn ==
    /\ stop_pc = "await"
    /\ wpc \in {"none", "done"}
    /\ sock' = "none"
    /\ stop_pc' = "returned"
    /\ UNCHANGED <<max_queue_size, batch_size, queue, running, writer_task,
                   dropped_count, wpc, batch, net, events, accepted, sent,
                   dropped_ids, drained, offered, retried>>
    /\ UNCHANGED notWriter

\* Environment: from some point on the store accepts connections and writes
NetRecover ==
    /\ net = "flaky"
    /\ net' = "up"
    /\ UNCHANGED <<max_queue_size, batch_size, queue, sock, running, writer_task,
                   dropped_count, wpc, batch, stop_pc, events, accepted, sent,
                   dropped_ids, drained, offered, retried>>
    /\ UNCHANGED notWriter

WriterStep ==
    \/ WriterTop
    \/ ConnectOk
    \/ ConnectFail
    \/ SleepDone
    \/ GetTimeout
    \/ GetFirst
    \/ Drain
    \/ SendOk
    \/ SendFail

ProducerStep ==
    \/ write_trade
    \/ write_orderbook
    \/ write_orderbook_compact

WNextLive ==
    \/ ProducerStep
    \/ start
    \/ WriterStep
    \/ NetRecover

WNext ==
    \/ WNextLive
    \/ stop
    \/ StopReturn

WStart == \E c \in 1..MaxCap, b \in 1..MaxBatch : WStartWith(c, b)

\* A writer that is constructed and never used
WIdle == WStartWith(1, 1)

WInit == WStart /\ PIdle /\ KIdle /\ BIdle /\ XIdle

SpecWriter == WInit /\ [][WNext]_vars

\* The writer task is scheduled whenever it is runnable, it is started, and the
\* store eventually stays reachable.
SpecWriterLive ==
    /\ WInit
    /\ [][WNextLive]_vars
    /\ WF_vars(start)
    /\ WF_vars(WriterStep)
    /\ WF_vars(NetRecover)

Spec == SpecWriter

\* Ids handed to a successful sendall so far
RECURSIVE Flatten(_)
Flatten(ss) == IF ss = <<>> THEN <<>> ELSE Head(ss) \o Flatten(Tail(ss))

SentIds == Range(Flatten(sent))

\* ---------------------------------------------------------------- C3
\* C3: backpressure. With capacity C = max_queue_size, as long as the writer
\* has dequeued nothing, after n = C + k put attempts the queue holds the first
\* Min(n, C) entries, exactly Max(0, n - C) events were discarded,
\* get_dropped_count() equals that number, and the next enqueue call can
\* always take its (single, non-blocking) step.
C3_Backpressure ==
    ~drained =>
        /\ Len(queue) = Min(Cardinality(offered), max_queue_size)
        /\ Range(queue) = {e \in offered :
                             Cardinality({f \in offered : f <= e}) <= max_queue_size}
        /\ dropped_count = Max(0, Cardinality(offered) - max_queue_size)
        /\ Range(dropped_ids) = offered \ Range(queue)
        /\ Len(dropped_ids) = dropped_count
        /\ (WriterSuspended /\ events < MaxEvents) => ENABLED ProducerStep

\* C3 witness: capacity exceeded by two events before any drain
C3_Witness ==
    /\ ~drained
    /\ Cardinality(offered) = max_queue_size + 2
    /\ dropped_count = 2
    /\ Len(queue) = max_queue_size

\* ---------------------------------------------------------------- C10
\* Every accepted entry is in the queue, in the batch in flight, transmitted or
\* counted as dropped; the counter counts exactly the rejected puts.
Conserved ==
    /\ accepted \subseteq (Range(queue) \cup Range(batch) \cup SentIds
                             \cup Range(dropped_ids))
    /\ dropped_count = Len(dropped_ids)

NULL == -1

\* The outcome of a call whose body runs inside  try: ... except Exception as e:
\* failure_cb(e).  body_ok: the body reached its success continuation;
\* cb_ok: that continuation returned; fail_ok: failure_cb returned.
\* Result: how often each continuation ran and whether an exception escaped.
TryOutcome(body_ok, cb_ok, fail_ok) ==
    [succ   |-> IF body_ok THEN 1 ELSE 0,
     fail   |-> IF ~body_ok \/ ~cb_ok THEN 1 ELSE 0,
     raised |-> (~body_ok \/ ~cb_ok) /\ ~fail_ok]

\* _get_table_size: SUM(rowCount) of wal_transactions() when that query works
\* and is not NULL, otherwise count(*)
GetTableSize(wal_ok, wal_sum, count) ==
    IF wal_ok /\ wal_sum # NULL THEN wal_sum ELSE count

\* The environment appends a row with any ordering value (out-of-order
\* ingestion is allowed by the store); id is the insertion index.
AppendRow ==
    /\ Len(tbl) < MaxRows
    /\ \E t \in 1..MaxRows : tbl' = Append(tbl, [ts |-> t, id |-> Len(tbl) + 1])
    /\ UNCHANGED pcall
    /\ UNCHANGED notProvider

\* No provider call is in progress
NoCall == pcall.op = "none"

\* The caller has taken the outcome of its call; the next call can be made
PReturn ==
    /\ ~NoCall
    /\ pcall' = [op |-> "none"]
    /\ UNCHANGED tbl
    /\ UNCHANGED notProvider

\* The faults a call's body can meet before its success continuation, by call
BodyFaults(op) ==
    CASE op = "table_schema" -> {"key", "query"}
      [] op = "table_locations" -> {"location_cb"}
      [] op = "subscribe_to_table_locations" -> {"location_cb"}
      [] op = "table_location_size" -> {"key", "query"}
      [] op = "column_values" -> {"key", "query", "schema"}

\* The column names and data types information_schema.columns may report:
\* ordinary names, the row identity in several spellings, and one data type
\* for every branch of the type table, one in lower case, one the table
\* does not know and a missing one
ColumnNames == {"price", "rowid", "_rowid", "_ROWID"}
NoType == "<None>"
DataTypes == {"TIMESTAMP", "DOUBLE", "FLOAT", "INT", "LONG", "SHORT", "BYTE",
              "BOOLEAN", "SYMBOL", "double", "TIMESTAMP_NS", NoType}

\* The rows of the information_schema query, in ordinal order
ColumnLists ==
    UNION {[1..n -> [name : ColumnNames, dtype : DataTypes]] : n \in 0..MaxCols}

\* name.lower()
Lower(name) == IF name = "_ROWID" THEN "_rowid" ELSE name

\* (dtype or "").upper()
Upper(dtype) ==
    IF dtype = NoType THEN ""
    ELSE IF dtype = "double" THEN "DOUBLE"
    ELSE dtype

\* The hidden row identity is skipped
SkipColumnExactCase(name) == name = "_rowid"

SkipColumn(name) == Lower(name) = "_rowid"

\* The if / elif chain from the store's data type to the Arrow type
ArrowType(dtype) ==
    LET t == Upper(dtype)
    IN IF t \in {"TIMESTAMP", "TIMESTAMPTZ", "TIMESTAMP WITHOUT TIME ZONE"}
            THEN "timestamp[us, tz=UTC]"
       ELSE IF t \in {"DOUBLE", "DOUBLE PRECISION"} THEN "float64"
       ELSE IF t \in {"FLOAT", "REAL"} THEN "float32"
       ELSE IF t \in {"INT", "INTEGER"} THEN "int32"
       ELSE IF t \in {"LONG", "BIGINT"} THEN "int64"
       ELSE IF t \in {"SHORT", "SMALLINT"} THEN "int16"
       ELSE IF t \in {"BYTE", "TINYINT"} THEN "int8"
       ELSE IF t \in {"BOOLEAN", "BOOL"} THEN "bool"
       ELSE IF t \in {"STRING", "SYMBOL", "TEXT", "VARCHAR", "CHAR"} THEN "string"
       ELSE "string"

\* _get_schema_from_information_schema: raises when the query returns no row,
\* otherwise one field for every row that is not skipped
GetSchemaFromInformationSchema(rows) ==
    IF rows = <<>> THEN [ok |-> FALSE, fields |-> <<>>]
    ELSE LET kept(row) == ~SkipColumn(row.name)
             public == SelectSeq(rows, kept)
         IN [ok |-> TRUE,
             fields |-> [i \in 1..Len(public) |->
                            [name |-> public[i].name, type |-> ArrowType(public[i].dtype)]]]

\* table_schema(table_key, schema_cb, failure_cb); rows is what the store
\* reports for the table
table_schema ==
    /\ NoCall
    /\ \E fault \in BodyFaults("table_schema") \cup {"none"}, cb_ok, fail_ok \in BOOLEAN :
       \E rows \in (IF fault = "none" THEN ColumnLists ELSE {<<>>}) :
         LET schema == GetSchemaFromInformationSchema(rows)
             body_ok == fault = "none" /\ schema.ok
             r == TryOutcome(body_ok, cb_ok, fail_ok)
         IN pcall' = [op |-> "table_schema", succ |-> r.succ, fail |-> r.fail,
                      loc |-> 0, raised |-> r.raised, fault |-> fault,
                      columns |-> rows,
                      schema |-> IF body_ok THEN schema.fields ELSE <<>>]
    /\ UNCHANGED tbl
    /\ UNCHANGED notProvider

\* table_locations(table_key, location_cb, success_cb, failure_cb)
table_locations ==
    /\ NoCall
    /\ \E fault \in BodyFaults("table_locations") \cup {"none"}, cb_ok, fail_ok \in BOOLEAN :
         LET r == TryOutcome(fault = "none", cb_ok, fail_ok)
         IN pcall' = [op |-> "table_locations", succ |-> r.succ, fail |-> r.fail,
                      loc |-> 1, raised |-> r.raised]
    /\ UNCHANGED tbl
    /\ UNCHANGED notProvider

\* subscribe_to_table_locations(table_key, location_cb, success_cb, failure_cb):
\* as table_locations, then (verbose only) reads table_key.table_name inside
\* the same try
subscribe_to_table_locations ==
    /\ NoCall
    /\ \E fault \in BodyFaults("subscribe_to_table_locations") \cup {"none"},
          cb_ok, fail_ok, key_ok, verbose \in BOOLEAN :
         LET r == TryOutcome(fault = "none", cb_ok /\ (verbose => key_ok), fail_ok)
         IN pcall' = [op |-> "subscribe_to_table_locations", succ |-> r.succ,
                      fail |-> r.fail, loc |-> 1, raised |-> r.raised]
    /\ UNCHANGED tbl
    /\ UNCHANGED notProvider

\* table_location_size(table_key, table_location_key, size_cb, failure_cb)
table_location_size ==
    /\ NoCall
    /\ \E fault \in BodyFaults("table_location_size") \cup {"none"},
          wal_ok, cb_ok, fail_ok \in BOOLEAN :
       \E wal_sum \in {NULL} \cup 0..MaxRows :
         LET needs_count == ~(wal_ok /\ wal_sum # NULL)
             \* a failing count(*) matters only when the fallback is taken
             body_ok == fault = "none" \/ (fault = "query" /\ ~needs_count)
             r == TryOutcome(body_ok, cb_ok, fail_ok)
         IN pcall' = [op |-> "table_location_size", succ |-> r.succ, fail |-> r.fail,
                      loc |-> 0, raised |-> r.raised,
                      size |-> IF body_ok THEN GetTableSize(wal_ok, wal_sum, Len(tbl))
                               ELSE NULL]
    /\ UNCHANGED tbl
    /\ UNCHANGED notProvider

\* Permutations of 1..n
Perms(n) == {p \in [1..n -> 1..n] : \A i, j \in 1..n : i # j => p[i] # p[j]}

\* ROW_NUMBER() OVER (ORDER BY order_by_col): every numbering that lists the
\* rows in non-decreasing order of the ordering column (SQL leaves the order
\* of rows with equal ordering values open)
Numberings(t) ==
    {p \in Perms(Len(t)) : \A i, j \in 1..Len(t) : i < j => t[p[i]].ts <= t[p[j]].ts}

\* The value the cursor returns for column col of a row: a TIMESTAMP comes back
\* as a datetime without zone information
ColValue(row, col) ==
    IF col = "ts" THEN [t |-> row.ts, tz |-> "none"] ELSE row.id

\* The conversion column_values applies by the column's schema type: a
\* timestamp without zone gets UTC; an integer column is left as it is
Convert(col, v) ==
    IF col = "ts" THEN (IF v.tz = "none" THEN [v EXCEPT !.tz = "UTC"] ELSE v) ELSE v

\* SELECT col FROM numbered WHERE rn > start_rn AND rn <= end_rn
SelectRangeInclusive(t, p, col, start_rn, end_rn) ==
    LET numbered == [rn \in 1..Len(t) |-> [v |-> ColValue(t[p[rn]], col), rn |-> rn]]
        hit(x) == x.rn >= start_rn /\ x.rn <= end_rn
        rows == SelectSeq(numbered, hit)
    IN [i \in 1..Len(rows) |-> rows[i].v]

SelectRange(t, p, col, start_rn, end_rn) ==
    LET numbered == [rn \in 1..Len(t) |-> [v |-> ColValue(t[p[rn]], col), rn |-> rn]]
        hit(x) == x.rn > start_rn /\ x.rn <= end_rn
        rows == SelectSeq(numbered, hit)
    IN [i \in 1..Len(rows) |-> rows[i].v]

\* column_values(table_key, table_location_key, col, offset, min_rows, max_rows,
\*               values_cb, failure_cb): the body reaches values_cb
ColumnValuesOk ==
    /\ NoCall
    /\ \E p \in Numberings(tbl) :
       \E cb_ok, fail_ok \in BOOLEAN :
       \E col \in {"ts", "id"}, offset \in 0..MaxRows, max_rows \in 1..MaxPage :
         LET start_rn == offset
             end_rn == offset + max_rows
             rows == SelectRange(tbl, p, col, start_rn, end_rn)
             values == [i \in 1..Len(rows) |-> Convert(col, rows[i])]
             r == TryOutcome(TRUE, cb_ok, fail_ok)
         IN pcall' = [op |-> "column_values", succ |-> r.succ, fail |-> r.fail,
                      loc |-> 0, raised |-> r.raised, snap |-> tbl,
                      col |-> col, offset |-> offset, max_rows |-> max_rows,
                      values |-> values]
    /\ UNCHANGED tbl
    /\ UNCHANGED notProvider

\* column_values: the key assertion, the paging query or the schema lookup raises
ColumnValuesFault ==
    /\ NoCall
    /\ \E fault \in BodyFaults("column_values"), fail_ok \in BOOLEAN :
         LET r == TryOutcome(FALSE, TRUE, fail_ok)
         IN pcall' = [op |-> "column_values", succ |-> r.succ, fail |-> r.fail,
                      loc |-> 0, raised |-> r.raised, snap |-> tbl,
                      col |-> "id", offset |-> 0, max_rows |-> 1, values |-> <<>>]
    /\ UNCHANGED tbl
    /\ UNCHANGED notProvider

column_values == ColumnValuesOk \/ ColumnValuesFault

PInit == WIdle /\ PIdle /\ KIdle /\ BIdle /\ XIdle

\* The calls that answer from metadata
PNext ==
    \/ AppendRow
    \/ PReturn
    \/ table_schema
    \/ table_locations
    \/ subscribe_to_table_locations
    \/ table_location_size

SpecProvider == PInit /\ [][PNext]_vars

\* Paging over a growing table
PageNext ==
    \/ AppendRow
    \/ PReturn
    \/ ColumnValuesOk
    \/ ColumnValuesFault

SpecPage == PInit /\ [][PageNext]_vars

\* ---------------------------------------------------------------- C7
\* The ordering column defines ranks 1..K: no two rows share an ordering value
StrictOrder(t) == \A i, j \in 1..Len(t) : i # j => t[i].ts # t[j].ts

\* The row of rank r: the one with exactly r rows at or below its ordering value
RowOfRank(t, r) ==
    CHOOSE i \in 1..Len(t) : Cardinality({j \in 1..Len(t) : t[j].ts <= t[i].ts}) = r

C4_ExactlyOne ==
    ~NoCall => pcall.succ + pcall.fail = 1

\* =========================================================================
\*  Read side: the growth watcher thread, QuestDBBackend._wal_watch_loop,
\*  against a store whose transaction log runs ahead of the applied rows
\* =========================================================================

\* The transactions a writer can commit: rows with their rowCount, or a
\* transaction whose rowCount column is NULL
TxnKinds ==
    {[rows |-> r, rc |-> r] : r \in 1..MaxTxnRows}
        \cup {[rows |-> r, rc |-> NULL] : r \in 0..MaxTxnRows}

\* A writer commits a transaction to the log
Commit ==
    /\ Len(txns) < MaxTxns
    /\ \E k \in TxnKinds : txns' = Append(txns, k)
    /\ UNCHANGED <<applied, wal_enabled, stop_event, watch>>
    /\ UNCHANGED notWatcher

\* The store applies the next committed transaction to the table
Apply ==
    /\ applied < Len(txns)
    /\ applied' = applied + 1
    /\ UNCHANGED <<txns, wal_enabled, stop_event, watch>>
    /\ UNCHANGED notWatcher

\* [txn[1] for txn in new_transactions if txn[1] is not None]
RowCounts(ts) ==
    LET has(x) == x.rc # NULL
        rs == SelectSeq(ts, has)
    IN [i \in 1..Len(rs) |-> rs[i].rc]

\* SUM(rowCount): NULL when no transaction carries a row count
WalRowSum(ts) == IF RowCounts(ts) = <<>> THEN NULL ELSE SeqSum(RowCounts(ts))

\* SELECT count(*) FROM table: the rows applied so far
CountStar == SeqSum([i \in 1..applied |-> txns[i].rows])

\* A store query is issued
Query(w) == [w EXCEPT !.last_act = "query"]

\* A fault of the given kind happens
Fault(w, kind) == [w EXCEPT !.faults = @ \cup {kind}]

\* size_cb(v)
SizeCb(w, v) ==
    [w EXCEPT !.sizes = Append(@, v), !.last_act = "size_cb",
              !.late_cb = @ \/ stop_event]

\* except Exception as e: failure_cb(e), after which the thread function returns
FailureCbRetry(w) ==
    [w EXCEPT !.pc = "loop", !.fail = @ + 1, !.last_act = "failure_cb"]

FailureCb(w) ==
    [w EXCEPT !.pc = "done", !.fail = @ + 1, !.last_act = "failure_cb"]

\* The first query: latest sequencerTxn and SUM(rowCount) OVER (); an error is
\* caught by the inner try and selects count polling
InitialQuery ==
    /\ watch.pc = "init"
    /\ \E ok \in BOOLEAN :
         LET w == Query(watch)
             wal_row_sum == WalRowSum(txns)
             w1 == [w EXCEPT !.last_txn_id = Len(txns)]
         IN watch' =
              IF ~(ok /\ wal_enabled) THEN [Fault(w, "probe") EXCEPT !.pc = "fallback"]
              ELSE IF txns = <<>> THEN [w EXCEPT !.pc = "initial_cb"]
              ELSE IF wal_row_sum # NULL /\ wal_row_sum > 0
                   THEN [w1 EXCEPT !.last_size = wal_row_sum,
                                   !.use_wal_tracking = TRUE, !.pc = "initial_cb"]
                   ELSE [w1 EXCEPT !.pc = "initial_count"]
    /\ UNCHANGED <<txns, applied, wal_enabled, stop_event>>
    /\ UNCHANGED notWatcher

\* rowCount is NULL: count(*) inside the same inner try
InitialCount ==
    /\ watch.pc = "initial_count"
    /\ \E ok \in BOOLEAN :
         LET w == Query(watch)
         IN watch' =
              IF ok THEN [w EXCEPT !.last_size = CountStar,
                                   !.use_wal_tracking = TRUE, !.pc = "initial_cb"]
              ELSE [Fault(w, "probe") EXCEPT !.pc = "fallback"]
    /\ UNCHANGED <<txns, applied, wal_enabled, stop_event>>
    /\ UNCHANGED notWatcher

\* _get_table_size as called by the watcher: [raises, size, probe_failed]
TableSize(sum_ok, count_ok) ==
    LET wal_ok == wal_enabled /\ sum_ok
        needs_count == ~(wal_ok /\ WalRowSum(txns) # NULL)
    IN [raises |-> needs_count /\ ~count_ok,
        size |-> GetTableSize(wal_ok, WalRowSum(txns), CountStar),
        probe_failed |-> ~wal_ok,
        full_count |-> needs_count]

\* except of the inner try: last_size = self._get_table_size(table_name)
InitialFallback ==
    /\ watch.pc = "fallback"
    /\ \E sum_ok, count_ok \in BOOLEAN :
         LET r == TableSize(sum_ok, count_ok)
             w == Query(watch)
             w1 == IF r.probe_failed THEN Fault(w, "probe") ELSE w
         IN watch' =
              IF r.raises THEN FailureCb(Fault(w1, "query"))
              ELSE [w1 EXCEPT !.last_size = r.size, !.pc = "initial_cb"]
    /\ UNCHANGED <<txns, applied, wal_enabled, stop_event>>
    /\ UNCHANGED notWatcher

\* size_cb(last_size); success_cb()
InitialCallbacksSuccessFirst ==
    /\ watch.pc = "initial_cb"
    /\ \E size_ok, succ_ok \in BOOLEAN :
         LET w == [watch EXCEPT !.succ = @ + 1, !.last_act = "success_cb"]
             w1 == SizeCb(w, watch.last_size)
         IN watch' =
              IF ~succ_ok THEN FailureCb(Fault(w, "success_cb"))
              ELSE IF ~size_ok THEN FailureCb(Fault(w1, "size_cb"))
              ELSE [w1 EXCEPT !.pc = "loop"]
    /\ UNCHANGED <<txns, applied, wal_enabled, stop_event>>
    /\ UNCHANGED notWatcher

InitialCallbacks ==
    /\ watch.pc = "initial_cb"
    /\ \E size_ok, succ_ok \in BOOLEAN :
         LET w == SizeCb(watch, watch.last_size)
             w1 == [w EXCEPT !.succ = @ + 1, !.last_act = "success_cb"]
         IN watch' =
              IF ~size_ok THEN FailureCb(Fault(w, "size_cb"))
              ELSE IF ~succ_ok THEN FailureCb(Fault(w1, "success_cb"))
              ELSE [w1 EXCEPT !.pc = "loop"]
    /\ UNCHANGED <<txns, applied, wal_enabled, stop_event>>
    /\ UNCHANGED notWatcher

\* while not stop_event.is_set(): time.sleep(WAL_IDLE_SLEEP_SEC)
LoopTopNoCheck ==
    /\ watch.pc = "loop"
    /\ watch' = [watch EXCEPT !.pc = "poll", !.poll_visible = CountStar,
                              !.full_count = FALSE]
    /\ UNCHANGED <<txns, applied, wal_enabled, stop_event>>
    /\ UNCHANGED notWatcher

LoopTop ==
    /\ watch.pc = "loop"
    /\ watch' = [watch EXCEPT !.pc = IF stop_event THEN "done" ELSE "poll",
                              !.poll_visible = CountStar, !.full_count = FALSE]
    /\ UNCHANGED <<txns, applied, wal_enabled, stop_event>>
    /\ UNCHANGED notWatcher

\* use_wal_tracking: the transactions after last_txn_id
PollWal ==
    /\ watch.pc = "poll"
    /\ watch.use_wal_tracking
    /\ \E ok \in BOOLEAN :
         LET w == Query(watch)
             new_transactions == SubSeq(txns, watch.last_txn_id + 1, Len(txns))
             row_counts == RowCounts(new_transactions)
             w1 == [w EXCEPT !.last_txn_id = Len(txns)]
         IN watch' =
              IF ~ok THEN FailureCb(Fault(w, "query"))
              ELSE IF new_transactions = <<>> THEN [w EXCEPT !.pc = "loop"]
              ELSE IF row_counts # <<>>
                   THEN [w1 EXCEPT !.current_size = w.last_size + SeqSum(row_counts),
                                   !.pc = "notify"]
                   ELSE [w1 EXCEPT !.pc = "poll_count"]
    /\ UNCHANGED <<txns, applied, wal_enabled, stop_event>>
    /\ UNCHANGED notWatcher

\* no new transaction carries a rowCount: current_size = count(*)
PollCount ==
    /\ watch.pc = "poll_count"
    /\ \E ok \in BOOLEAN :
         LET w == [Query(watch) EXCEPT !.full_count = TRUE]
         IN watch' =
              IF ok THEN [w EXCEPT !.current_size = CountStar, !.pc = "notify"]
              ELSE FailureCb(Fault(w, "query"))
    /\ UNCHANGED <<txns, applied, wal_enabled, stop_event>>
    /\ UNCHANGED notWatcher

\* last_size = current_size; size_cb(current_size)
Notify ==
    /\ watch.pc = "notify"
    /\ \E size_ok \in BOOLEAN :
         LET w == SizeCb([watch EXCEPT !.last_size = watch.current_size],
                         watch.current_size)
         IN watch' =
              IF size_ok THEN [w EXCEPT !.pc = "loop"]
              ELSE FailureCb(Fault(w, "size_cb"))
    /\ UNCHANGED <<txns, applied, wal_enabled, stop_event>>
    /\ UNCHANGED notWatcher

\* count polling: current_size = _get_table_size(); notify if it grew
PollSize ==
    /\ watch.pc = "poll"
    /\ ~watch.use_wal_tracking
    /\ \E sum_ok, count_ok, size_ok \in BOOLEAN :
         LET r == TableSize(sum_ok, count_ok)
             w == [Query(watch) EXCEPT !.full_count = r.full_count]
             w1 == IF r.probe_failed THEN Fault(w, "probe") ELSE w
             w2 == SizeCb([w1 EXCEPT !.current_size = r.size, !.last_size = r.size],
                          r.size)
         IN watch' =
              IF r.raises THEN FailureCb(Fault(w1, "query"))
              ELSE IF r.size > w1.last_size
                   THEN (IF size_ok THEN [w2 EXCEPT !.pc = "loop"]
                         ELSE FailureCb(Fault(w2, "size_cb")))
                   ELSE [w1 EXCEPT !.current_size = r.size, !.pc = "loop"]
    /\ UNCHANGED <<txns, applied, wal_enabled, stop_event>>
    /\ UNCHANGED notWatcher

\* unsubscribe / cleanup: stop_event.set()
StopWatcher ==
    /\ ~stop_event
    /\ stop_event' = TRUE
    /\ UNCHANGED <<txns, applied, wal_enabled, watch>>
    /\ UNCHANGED notWatcher

\* The watcher thread has been started on a table with or without a log
KStart ==
    /\ txns = <<>>
    /\ applied = 0
    /\ wal_enabled \in BOOLEAN
    /\ stop_event = FALSE
    /\ watch = WatchLocals("init")

KInit == WIdle /\ PIdle /\ KStart /\ BIdle /\ XIdle

WatcherStep ==
    \/ InitialQuery
    \/ InitialCount
    \/ InitialFallback
    \/ InitialCallbacks
    \/ LoopTop
    \/ PollWal
    \/ PollCount
    \/ Notify
    \/ PollSize

KNext ==
    \/ Commit
    \/ Apply
    \/ StopWatcher
    \/ WatcherStep

SpecWatch == KInit /\ [][KNext]_vars

\* ---------------------------------------------------------------- C2
\* C2: growth monotonicity. The values one watcher passes to the size
\* callback are non-decreasing, in every tracking mode.
C2_Monotone ==
    \A i \in 1..(Len(watch.sizes) - 1) : watch.sizes[i] <= watch.sizes[i + 1]

\* ---------------------------------------------------------------- C8
\* The watcher has ended through its failure callback, once, and has neither
\* queried the store nor reported a size since
EndedByFailure ==
    /\ watch.pc = "done"
    /\ watch.fail = 1
    /\ watch.last_act = "failure_cb"

\* C8 as stated: after the failure of any store query or callback the watcher
\* has invoked the failure callback once, issues no further query, delivers no
\* further size and has terminated without retrying.
C8_AnyFailure ==
    watch.faults # {} => EndedByFailure

\* C8, amended: the same for every callback and every store query except the
\* transaction-log probes whose error is caught where it occurs (the initial
\* wal_transactions query with its count(*), and SUM(rowCount) inside
\* _get_table_size): their failure selects the count fallback instead.
C8_UnhandledFailure ==
    watch.faults \ {"probe"} # {} => EndedByFailure

\* C8 witness: a watcher that reported twice, then met a failing query
C8_Witness ==
    /\ "query" \in watch.faults
    /\ Len(watch.sizes) = 2
    /\ watch.succ = 1
    /\ EndedByFailure

\* =========================================================================
\*  Read side: the registry (get_or_create, cleanup, cleanup_all) and the
\*  watcher threads started by subscribe_to_table_location_size, for one
\*  table name and concurrent callers
\* =========================================================================
bstate == <<registry, global_lock, inst_lock, active, n_inst, thread, stop_ev,
            unsubs, cleaned, returned, after_cleanup, raised>>

\* Threads started and not yet terminated
LiveThreads == {t \in 1..MaxThreads : thread[t] = "live"}

\* with _GLOBAL_BACKEND_LOCK: can be entered
GlobalLockIgnored == TRUE

GlobalLockFree == global_lock = "free"

\* with self._lock: can be entered
InstLockFree(i) == inst_lock[i] = "free"

\* The caller moves on, with some of its locals changed
Goto(c, pc) == [caller EXCEPT ![c].pc = pc]

\* ---- get_or_create(table_name)
GocAcquire(c) ==
    /\ caller[c].pc = "idle"
    /\ GlobalLockFree
    /\ registry # 0 \/ n_inst < MaxInst
    /\ global_lock' = c
    /\ caller' = Goto(c, "goc_check")
    /\ UNCHANGED <<registry, inst_lock, active, n_inst, thread, stop_ev, unsubs,
                   cleaned, returned, after_cleanup, raised>>
    /\ UNCHANGED notBackend

\* if table_name in _GLOBAL_BACKENDS_BY_TABLE: existing = ...
GocCheck(c) ==
    /\ caller[c].pc = "goc_check"
    /\ caller' = IF registry # 0
                 THEN [caller EXCEPT ![c].pc = "goc_return", ![c].ret = registry]
                 ELSE Goto(c, "goc_new")
    /\ UNCHANGED bstate
    /\ UNCHANGED notBackend

\* new_backend = cls(...); _GLOBAL_BACKENDS_BY_TABLE[table_name] = new_backend
GocNew(c) ==
    /\ caller[c].pc = "goc_new"
    /\ n_inst < MaxInst
    /\ n_inst' = n_inst + 1
    /\ registry' = n_inst + 1
    /\ caller' = [caller EXCEPT ![c].pc = "goc_return", ![c].ret = n_inst + 1]
    /\ UNCHANGED <<global_lock, inst_lock, active, thread, stop_ev, unsubs,
                   cleaned, returned, after_cleanup, raised>>
    /\ UNCHANGED notBackend

\* return existing / new_backend, leaving the with block
GocReturn(c) ==
    /\ caller[c].pc = "goc_return"
    /\ global_lock' = "free"
    /\ returned' = returned \cup {caller[c].ret}
    /\ caller' = [caller EXCEPT ![c] = CallerIdle(caller[c].ret)]
    /\ UNCHANGED <<registry, inst_lock, active, n_inst, thread, stop_ev, unsubs,
                   cleaned, after_cleanup, raised>>
    /\ UNCHANGED notBackend

get_or_create(c) == GocAcquire(c) \/ GocCheck(c) \/ GocNew(c) \/ GocReturn(c)

\* ---- subscribe_to_table_location_size on the caller's instance
\* table_name = table_key.table_name, outside any try
SubBegin(c) ==
    /\ caller[c].pc = "idle"
    /\ caller[c].inst # 0
    /\ \E t \in 1..MaxThreads : thread[t] = "new"
    /\ \E key_ok \in BOOLEAN :
         IF key_ok
         THEN /\ caller' = Goto(c, "sub_lock")
              /\ UNCHANGED raised
         ELSE /\ raised' = raised \cup
                    {[op |-> "subscribe_to_table_location_size", fault |-> "key"]}
              /\ UNCHANGED caller
    /\ UNCHANGED <<registry, global_lock, inst_lock, active, n_inst, thread, stop_ev,
                   unsubs, cleaned, returned, after_cleanup>>
    /\ UNCHANGED notBackend

\* with self._lock: capture the entry for table_name and set its stop event
SubCaptureNoStop(c) ==
    LET i == caller[c].inst
        old_thread == active[i]
    IN /\ caller[c].pc = "sub_lock"
       /\ InstLockFree(i)
       /\ IF old_thread # 0
          THEN caller' = [caller EXCEPT ![c].pc = "sub_join", ![c].old = old_thread]
          ELSE caller' = Goto(c, "sub_start")
       /\ UNCHANGED <<registry, global_lock, inst_lock, active, n_inst, thread, stop_ev,
                      unsubs, cleaned, returned, after_cleanup, raised>>
       /\ UNCHANGED notBackend

SubCapture(c) ==
    LET i == caller[c].inst
        old_thread == active[i]
    IN /\ caller[c].pc = "sub_lock"
       /\ InstLockFree(i)
       /\ IF old_thread # 0
          THEN /\ stop_ev' = [stop_ev EXCEPT ![old_thread] = TRUE]
               /\ caller' = [caller EXCEPT ![c].pc = "sub_join", ![c].old = old_thread]
          ELSE /\ UNCHANGED stop_ev
               /\ caller' = Goto(c, "sub_start")
       /\ UNCHANGED <<registry, global_lock, inst_lock, active, n_inst, thread,
                      unsubs, cleaned, returned, after_cleanup, raised>>
       /\ UNCHANGED notBackend

\* old_thread.join(timeout=1.0) returns because the thread has ended
SubJoin(c) ==
    /\ caller[c].pc = "sub_join"
    /\ thread[caller[c].old] = "ended"
    /\ caller' = Goto(c, "sub_start")
    /\ UNCHANGED bstate
    /\ UNCHANGED notBackend

\* old_thread.join(timeout=1.0) times out: the thread is still alive
SubJoinTimeout(c) ==
    /\ caller[c].pc = "sub_join"
    /\ thread[caller[c].old] = "live"
    /\ caller' = Goto(c, "sub_start")
    /\ UNCHANGED bstate
    /\ UNCHANGED notBackend

\* stop_event = Event(); t = Thread(...); t.start(), outside any try
SubStart(c) ==
    /\ caller[c].pc = "sub_start"
    /\ \E start_ok \in BOOLEAN :
         IF start_ok
         THEN /\ \E t \in 1..MaxThreads :
                   /\ thread[t] = "new"
                   /\ \A u \in 1..(t - 1) : thread[u] # "new"
                   /\ thread' = [thread EXCEPT ![t] = "live"]
                   /\ caller' = [caller EXCEPT ![c].pc = "sub_record", ![c].t = t]
              /\ UNCHANGED raised
         ELSE /\ raised' = raised \cup
                    {[op |-> "subscribe_to_table_location_size", fault |-> "start"]}
              /\ caller' = [caller EXCEPT ![c] = CallerIdle(caller[c].inst)]
              /\ UNCHANGED thread
    /\ UNCHANGED <<registry, global_lock, inst_lock, active, n_inst, stop_ev,
                   unsubs, cleaned, returned, after_cleanup>>
    /\ UNCHANGED notBackend

\* with self._lock: _active_threads[table_name] = (stop_event, t); return unsubscribe
SubRecord(c) ==
    LET i == caller[c].inst
    IN /\ caller[c].pc = "sub_record"
       /\ InstLockFree(i)
       /\ active' = [active EXCEPT ![i] = caller[c].t]
       /\ unsubs' = unsubs \cup {<<i, caller[c].t>>}
       /\ caller' = [caller EXCEPT ![c] = CallerIdle(i)]
       /\ UNCHANGED <<registry, global_lock, inst_lock, n_inst, thread, stop_ev,
                      cleaned, returned, after_cleanup, raised>>
       /\ UNCHANGED notBackend

subscribe_to_table_location_size(c) ==
    \/ SubBegin(c)
    \/ SubCapture(c)
    \/ SubJoin(c)
    \/ SubJoinTimeout(c)
    \/ SubStart(c)
    \/ SubRecord(c)

\* ---- a returned unsubscribe closure: with self._lock: stop_event.set();
\* delete whatever entry table_name has
unsubscribe(c) ==
    /\ caller[c].pc = "idle"
    /\ \E u \in unsubs :
         /\ InstLockFree(u[1])
         /\ stop_ev' = [stop_ev EXCEPT ![u[2]] = TRUE]
         /\ active' = [active EXCEPT ![u[1]] = 0]
    /\ UNCHANGED <<registry, global_lock, inst_lock, n_inst, thread, caller,
                   unsubs, cleaned, returned, after_cleanup, raised>>
    /\ UNCHANGED notBackend

\* ---- cleanup() on the caller's instance
\* with self._lock: signal every active thread and clear the map
CleanupSignal(c) ==
    LET i == caller[c].inst
        t == active[i]
    IN /\ caller[c].pc = "idle"
       /\ i # 0
       /\ InstLockFree(i)
       /\ cleaned' = TRUE
       /\ IF t # 0
          THEN /\ stop_ev' = [stop_ev EXCEPT ![t] = TRUE]
               /\ active' = [active EXCEPT ![i] = 0]
               /\ caller' = [caller EXCEPT ![c].pc = "cl_join", ![c].old = t]
          ELSE /\ UNCHANGED <<stop_ev, active>>
               /\ caller' = Goto(c, "cl_unreg")
       /\ UNCHANGED <<registry, global_lock, inst_lock, n_inst, thread, unsubs,
                      returned, after_cleanup, raised>>
       /\ UNCHANGED notBackend

\* thread.join(timeout=2.0), outside the lock: the thread has ended
CleanupJoin(c) ==
    /\ caller[c].pc = "cl_join"
    /\ thread[caller[c].old] = "ended"
    /\ caller' = Goto(c, "cl_unreg")
    /\ UNCHANGED bstate
    /\ UNCHANGED notBackend

\* thread.join(timeout=2.0) times out
CleanupJoinTimeout(c) ==
    /\ caller[c].pc = "cl_join"
    /\ thread[caller[c].old] = "live"
    /\ caller' = Goto(c, "cl_unreg")
    /\ UNCHANGED bstate
    /\ UNCHANGED notBackend

\* Nothing but the registry refers to instance i: its user let go of it, no
\* call is working on it, no unsubscribe closure and no watcher thread of it
\* exists
Unreferenced(i) ==
    /\ i \in dropped
    /\ \A d \in Callers : caller[d].inst # i /\ caller[d].ret # i /\ caller[d].todo # i
    /\ \A u \in unsubs : u[1] # i
    /\ active[i] = 0

\* with _GLOBAL_BACKEND_LOCK: delete the registry entry of self._table_name.
\* When the deleted entry held the last reference to another instance, that
\* instance's __del__ runs inside the with block and calls its cleanup(),
\* which asks for _GLOBAL_BACKEND_LOCK, a lock this thread already holds.
CleanupUnregister(c) ==
    /\ caller[c].pc = "cl_unreg"
    /\ GlobalLockFree
    /\ registry' = 0
    /\ IF registry # 0 /\ Unreferenced(registry)
       THEN /\ global_lock' = c
            /\ caller' = Goto(c, "del_unreg")
       ELSE /\ UNCHANGED global_lock
            /\ caller' = [caller EXCEPT ![c] = CallerIdle(caller[c].inst)]
    /\ UNCHANGED <<inst_lock, active, n_inst, thread, stop_ev, unsubs,
                   cleaned, returned, after_cleanup, raised>>
    /\ UNCHANGED notBackend

\* The user of a registered instance lets go of its reference to it (the
\* variable is rebound or deleted); the registry keeps the instance alive
DropRef(c) ==
    /\ caller[c].pc = "idle"
    /\ caller[c].inst # 0
    /\ registry = caller[c].inst
    /\ dropped' = dropped \cup {caller[c].inst}
    /\ caller' = [caller EXCEPT ![c] = CallerIdle(0)]
    /\ UNCHANGED bstate
    /\ UNCHANGED notRefs

cleanup(c) ==
    \/ CleanupSignal(c)
    \/ CleanupJoin(c)
    \/ CleanupJoinTimeout(c)
    \/ CleanupUnregister(c)

\* ---- cleanup_all()
\* with _GLOBAL_BACKEND_LOCK: take the registered backends and clear the
\* registry; with an empty registry backends_to_cleanup is never assigned and
\* the loop over it raises UnboundLocalError
CaBegin(c) ==
    /\ caller[c].pc = "idle"
    /\ GlobalLockFree
    /\ cleaned' = TRUE
    /\ IF registry # 0
       THEN /\ caller' = [caller EXCEPT ![c].pc = "ca_inst", ![c].todo = registry]
            /\ registry' = 0
            /\ UNCHANGED raised
       ELSE /\ raised' = raised \cup {[op |-> "cleanup_all", fault |-> "unbound"]}
            /\ UNCHANGED <<caller, registry>>
    /\ UNCHANGED <<global_lock, inst_lock, active, n_inst, thread, stop_ev, unsubs,
                   returned, after_cleanup>>
    /\ UNCHANGED notBackend

\* with instance._lock: signal the active thread and clear the map; the
\* lock stays held for the join
CaSignal(c) ==
    LET i == caller[c].todo
        t == active[i]
    IN /\ caller[c].pc = "ca_inst"
       /\ InstLockFree(i)
       /\ IF t # 0
          THEN /\ stop_ev' = [stop_ev EXCEPT ![t] = TRUE]
               /\ active' = [active EXCEPT ![i] = 0]
               /\ inst_lock' = [inst_lock EXCEPT ![i] = c]
               /\ caller' = [caller EXCEPT ![c].pc = "ca_join", ![c].old = t]
          ELSE /\ UNCHANGED <<stop_ev, active, inst_lock>>
               /\ caller' = Goto(c, "ca_done")
       /\ UNCHANGED <<registry, global_lock, n_inst, thread, unsubs, cleaned,
                      returned, after_cleanup, raised>>
       /\ UNCHANGED notBackend

\* thread.join(timeout=2.0) inside the instance lock: the thread has ended
CaJoin(c) ==
    /\ caller[c].pc = "ca_join"
    /\ thread[caller[c].old] = "ended"
    /\ inst_lock' = [inst_lock EXCEPT ![caller[c].todo] = "free"]
    /\ caller' = Goto(c, "ca_done")
    /\ UNCHANGED <<registry, global_lock, active, n_inst, thread, stop_ev, unsubs,
                   cleaned, returned, after_cleanup, raised>>
    /\ UNCHANGED notBackend

\* thread.join(timeout=2.0) times out
CaJoinTimeout(c) ==
    /\ caller[c].pc = "ca_join"
    /\ thread[caller[c].old] = "live"
    /\ inst_lock' = [inst_lock EXCEPT ![caller[c].todo] = "free"]
    /\ caller' = Goto(c, "ca_done")
    /\ UNCHANGED <<registry, global_lock, active, n_inst, thread, stop_ev, unsubs,
                   cleaned, returned, after_cleanup, raised>>
    /\ UNCHANGED notBackend

\* cleanup_all returns
CaReturn(c) ==
    /\ caller[c].pc = "ca_done"
    /\ after_cleanup' = [done |-> TRUE, registry |-> registry, live |-> LiveThreads]
    /\ caller' = [caller EXCEPT ![c] = CallerIdle(caller[c].inst)]
    /\ UNCHANGED <<registry, global_lock, inst_lock, active, n_inst, thread, stop_ev,
                   unsubs, cleaned, returned, raised>>
    /\ UNCHANGED notBackend

cleanup_all(c) ==
    \/ CaBegin(c)
    \/ CaSignal(c)
    \/ CaJoin(c)
    \/ CaJoinTimeout(c)
    \/ CaReturn(c)

\* ---- the watcher threads, seen from outside
\* the loop finds stop_event set and the thread function returns
WatcherExit(t) ==
    /\ thread[t] = "live"
    /\ stop_ev[t]
    /\ thread' = [thread EXCEPT ![t] = "ended"]
    /\ UNCHANGED <<registry, global_lock, inst_lock, active, n_inst, stop_ev,
                   caller, unsubs, cleaned, returned, after_cleanup, raised>>
    /\ UNCHANGED notBackend

\* an error in the loop: failure_cb and the thread function returns
WatcherFails(t) ==
    /\ thread[t] = "live"
    /\ ~stop_ev[t]
    /\ thread' = [thread EXCEPT ![t] = "ended"]
    /\ UNCHANGED <<registry, global_lock, inst_lock, active, n_inst, stop_ev,
                   caller, unsubs, cleaned, returned, after_cleanup, raised>>
    /\ UNCHANGED notBackend

BInit == WIdle /\ PIdle /\ KIdle /\ BIdle /\ XIdle

BNext ==
    \/ \E c \in Callers :
         \/ get_or_create(c)
         \/ subscribe_to_table_location_size(c)
         \/ unsubscribe(c)
         \/ cleanup(c)
         \/ cleanup_all(c)
    \/ \E t \in 1..MaxThreads : WatcherExit(t) \/ WatcherFails(t)

SpecBackend == BInit /\ [][BNext]_vars

\* The registry alone: callers that obtain and clean up backends and make
\* no subscription
RegistryNext ==
    \E c \in Callers :
        \/ get_or_create(c)
        \/ CleanupSignal(c)
        \/ CleanupUnregister(c)
        \/ CaBegin(c)
        \/ CaSignal(c)
        \/ CaReturn(c)

SpecRegistry == BInit /\ [][RegistryNext]_vars

\* ---------------------------------------------------------------- C1
\* C1: at most one watcher thread of the table name is started and not yet
\* terminated, in every reachable state.
C1_SingleWatcher ==
    Cardinality(LiveThreads) <= 1

\* ---------------------------------------------------------------- C5
\* C5: as long as no cleanup has run, concurrent get_or_create calls for the
\* table name construct exactly one instance, all return it, and the registry
\* holds exactly that entry.
C5_Idempotent ==
    ~cleaned =>
        /\ n_inst <= 1
        /\ returned \subseteq {registry}
        /\ returned # {} => n_inst = 1 /\ registry = 1

\* C5 witness: both callers have returned from get_or_create with the same
\* instance, and the second one found it while the registry was untouched
C5_Witness ==
    /\ ~cleaned
    /\ \A c \in Callers : caller[c].pc = "idle" /\ caller[c].inst = 1
    /\ n_inst = 1

\* ---------------------------------------------------------------- C6
\* C6: when cleanup_all returns the registry is empty and no watcher thread
\* is live.
C6_CleanupComplete ==
    after_cleanup.done => after_cleanup.registry = 0 /\ after_cleanup.live = {}

\* ---------------------------------------------------------------- C9
\* C9: no provider call raises to its caller: not the calls that wrap their
\* body in a try, and not subscribe_to_table_location_size.
C9_NeverRaises ==
    /\ ~NoCall => ~pcall.raised
    /\ \A r \in raised : r.op # "subscribe_to_table_location_size"

\* ---------------------------------------------------------------- C11
\* C11: slow or failed writes never block producers. Whenever the writer task
\* is inside a connect attempt, a socket send or a back-off sleep, a producer
\* with an event to write can take its step.
C11_ProducersNotBlocked ==
    (wpc \in {"connecting", "sending", "conn_sleep", "backoff"} /\ events < MaxEvents)
        => ENABLED ProducerStep

\* ---------------------------------------------------------------- C12
\* C12: enqueue never raises to the producer, whatever the event, the queue
\* level and the connection state; an event that reaches a full queue adds
\* exactly one to the dropped counter and leaves the queue as it was, and no
\* other event changes the counter.
C12_EnqueueNeverRaises ==
    /\ [](~write_raised)
    /\ [][events' # events =>
            IF offered' # offered /\ QueueFull(queue)
            THEN dropped_count' = dropped_count + 1 /\ queue' = queue
            ELSE dropped_count' = dropped_count]_vars

\* C12 witness: a malformed event and a dropped event have both been written
\* while the connection was down
C12_Witness ==
    /\ ~write_raised
    /\ events > Cardinality(offered)
    /\ dropped_count >= 1
    /\ sock = "none"
    /\ Len(queue) = max_queue_size

\* One caller that obtains a backend and subscribes again and again: every
\* call starts after the previous one has returned
ResubNext ==
    \/ get_or_create("c1")
    \/ subscribe_to_table_location_size("c1")
    \/ \E t \in 1..MaxThreads : WatcherExit(t) \/ WatcherFails(t)

SpecResub == BInit /\ [][ResubNext]_vars

\* ---------------------------------------------------------------- C13
\* The first two subscriptions of the caller have both returned, the second
\* after its bounded join of the first watcher
SettledTwice ==
    /\ caller["c1"].pc = "idle"
    /\ {<<1, 1>>, <<1, 2>>} \subseteq unsubs
    /\ active[1] = 2

\* C13: once two subscribe calls made in succession on one instance have both
\* returned, the only live watcher of the table is the one the second call
\* started (unless that one has already ended through an error of its own).
C13_SettlesToOne ==
    SettledTwice => thread[2] # "new" /\ LiveThreads \subseteq {2}

\* ---------------------------------------------------------------- C14
\* The watcher threads started through instance i: those whose subscription
\* has returned and those started but not yet recorded
OwnedThreads(i) ==
    {t \in 1..MaxThreads : <<i, t>> \in unsubs}
        \cup {caller[c].t : c \in {d \in Callers : caller[d].pc = "sub_record"
                                                    /\ caller[d].inst = i}}

\* C14: an instance that has been constructed and is not in the registry (it
\* was removed) owns no watcher thread that is still running.
C14_RemovedHasNoWatchers ==
    \A i \in 1..n_inst : registry # i => OwnedThreads(i) \cap LiveThreads = {}

\* ---------------------------------------------------------------- C15
\* The watcher has not yet passed its initial callbacks
BeforeInitialSize == watch.pc \in {"init", "initial_count", "fallback", "initial_cb"}

\* Rows written to the table so far, applied or not
RowsWritten == SeqSum([i \in 1..Len(txns) |-> txns[i].rows])

\* C15: initial size delivery. Until its initial callbacks the watcher has
\* delivered nothing and is never waiting for a write or a poll interval; the
\* initial callbacks deliver the initial size as the first and only value so
\* far, 0 if no row has been written; the success continuation and every later
\* size callback come after it.
C15_InitialSize ==
    /\ [](BeforeInitialSize =>
            watch.sizes = <<>> /\ watch.succ = 0 /\ ENABLED WatcherStep)
    /\ [](watch.succ = 1 => Len(watch.sizes) >= 1)
    /\ [][(watch.pc = "initial_cb" /\ watch'.pc # "initial_cb") =>
            /\ watch'.sizes = <<watch.last_size>>
            /\ RowsWritten = 0 => watch'.sizes = <<0>>]_vars
    /\ [][(Len(watch'.sizes) > Len(watch.sizes) /\ watch.pc # "initial_cb") =>
            watch.succ = 1 /\ Len(watch.sizes) >= 1]_vars

\* C15 witness: an empty table, 0 delivered and success signalled before any
\* write and before the first poll
C15_Witness ==
    /\ txns = <<>>
    /\ watch.sizes = <<0>>
    /\ watch.succ = 1
    /\ watch.pc = "loop"
    /\ watch.fail = 0

\* ---------------------------------------------------------------- C16
\* The value most recently passed to the size callback
LastReported == watch.sizes[Len(watch.sizes)]

\* C16: growth is reported at the next poll. When an active watcher whose
\* queries and callbacks all succeeded has completed a poll iteration, the
\* size it has reported covers the rows that were visible in the table when
\* that iteration began.
C16_GrowthAtNextPoll ==
    (watch.pc = "loop" /\ watch.succ = 1 /\ watch.faults = {})
        => LastReported >= watch.poll_visible

\* The watcher thread keeps being scheduled and the store keeps applying
\* committed transactions
SpecWatchLive ==
    /\ KInit
    /\ [][KNext]_vars
    /\ WF_vars(WatcherStep)
    /\ WF_vars(Apply)

\* ---------------------------------------------------------------- C17
\* C17: eventually-consistent size. Unless the watcher is stopped or meets a
\* failing query or callback, from some point on (writes having stopped) the
\* last value passed to the size callback equals the table's row count.
C17_EventuallyConsistent ==
    \/ <>(stop_event \/ watch.faults # {})
    \/ <>[](/\ watch.sizes # <<>>
            /\ applied = Len(txns)
            /\ LastReported = CountStar)

\* ---------------------------------------------------------------- C18
\* Number of watcher steps left, at most, once the stop event is set
StepsToExit ==
    CASE watch.pc = "done" -> 0
      [] watch.pc = "loop" -> 1
      [] watch.pc = "notify" -> 2
      [] watch.pc = "poll_count" -> 3
      [] watch.pc = "poll" -> 4
      [] watch.pc = "initial_cb" -> 5
      [] watch.pc = "fallback" -> 6
      [] watch.pc = "initial_count" -> 7
      [] OTHER -> 8

\* C18: bounded cooperative cancellation. Once the stop event is set the
\* watcher delivers at most one further size callback (that of the step it is
\* in), starts no poll iteration from the top of the loop, and terminates:
\* it can always take its next step and every step brings it nearer its exit.
C18_BoundedCancellation ==
    /\ [][(stop_event /\ watch.late_cb) => watch'.sizes = watch.sizes]_vars
    /\ [][(stop_event /\ watch.pc = "loop") => watch'.pc \in {"loop", "done"}]_vars
    /\ []((stop_event /\ watch.pc # "done") => ENABLED WatcherStep)
    /\ [][(stop_event /\ watch' # watch) => StepsToExit' < StepsToExit]_vars

\* C18, termination under a fair scheduler of the watcher thread
C18_Terminates == stop_event ~> (watch.pc = "done")

\* C18 witness: stopped in the middle of a poll iteration, the watcher
\* delivered that iteration's size and then ended without a failure
C18_Witness ==
    /\ stop_event
    /\ watch.late_cb
    /\ Len(watch.sizes) = 2
    /\ watch.pc = "done"
    /\ watch.fail = 0

\* ---------------------------------------------------------------- C19
\* Paging by row identity (live_via_questdb_wal.py). The store gives every
\* row a _rowid when it is appended: larger than every earlier one. The code
\* assumes, and nothing in it ensures, that the first is 1 and that no value
\* is skipped; the store may start at 0 and may leave a gap.
AppendRowWithRowid ==
    /\ Len(tbl) < MaxRows
    /\ \E t \in 1..MaxRows :
       \E rid \in (IF tbl = <<>> THEN {0, 1}
                   ELSE {tbl[Len(tbl)].rid + 1, tbl[Len(tbl)].rid + 2}) :
         tbl' = Append(tbl, [ts |-> t, id |-> Len(tbl) + 1, rid |-> rid])
    /\ UNCHANGED pcall
    /\ UNCHANGED notProvider

\* SELECT col FROM t WHERE _rowid BETWEEN rowid_start AND rowid_end ORDER BY _rowid
SelectRowidExclusive(t, col, rowid_start, rowid_end) ==
    LET hits == {i \in 1..Len(t) : t[i].rid > rowid_start /\ t[i].rid <= rowid_end}
        nth(k) == CHOOSE i \in hits :
                      Cardinality({j \in hits : t[j].rid <= t[i].rid}) = k
    IN [k \in 1..Cardinality(hits) |-> ColValue(t[nth(k)], col)]

SelectRowid(t, col, rowid_start, rowid_end) ==
    LET hits == {i \in 1..Len(t) : t[i].rid >= rowid_start /\ t[i].rid <= rowid_end}
        nth(k) == CHOOSE i \in hits :
                      Cardinality({j \in hits : t[j].rid <= t[i].rid}) = k
    IN [k \in 1..Cardinality(hits) |-> ColValue(t[nth(k)], col)]

\* column_values of the row-identity backend: the body reaches values_cb with
\* the fetched values as they are
ColumnValuesRowidOk ==
    /\ NoCall
    /\ \E cb_ok, fail_ok \in BOOLEAN :
       \E col \in {"ts", "id"}, offset \in 0..MaxRows, max_rows \in 1..MaxPage :
         LET rowid_start == offset + 1
             rowid_end == rowid_start + max_rows - 1
             values == SelectRowid(tbl, col, rowid_start, rowid_end)
             r == TryOutcome(TRUE, cb_ok, fail_ok)
         IN pcall' = [op |-> "column_values_rowid", succ |-> r.succ, fail |-> r.fail,
                      loc |-> 0, raised |-> r.raised, snap |-> tbl,
                      col |-> col, offset |-> offset, max_rows |-> max_rows,
                      values |-> values]
    /\ UNCHANGED tbl
    /\ UNCHANGED notProvider

\* column_values of the row-identity backend: the key assertion or the query
\* (the table has no _rowid column, the connection fails) raises
ColumnValuesRowidFault ==
    /\ NoCall
    /\ \E fault \in {"key", "query"}, fail_ok \in BOOLEAN :
         LET r == TryOutcome(FALSE, TRUE, fail_ok)
         IN pcall' = [op |-> "column_values_rowid", succ |-> r.succ, fail |-> r.fail,
                      loc |-> 0, raised |-> r.raised, snap |-> tbl,
                      col |-> "id", offset |-> 0, max_rows |-> 1, values |-> <<>>]
    /\ UNCHANGED tbl
    /\ UNCHANGED notProvider

\* Row-identity paging over a growing table
RowidPageNext ==
    \/ AppendRowWithRowid
    \/ PReturn
    \/ ColumnValuesRowidOk
    \/ ColumnValuesRowidFault

SpecRowidPage == PInit /\ [][RowidPageNext]_vars

\* The ordering column is a strict total order that agrees with insertion order
InsertionOrdered(t) == \A i, j \in 1..Len(t) : i < j => t[i].ts < t[j].ts

DenseRowid(t) == \A i \in 1..Len(t) : t[i].rid = i

SchemaNext == table_schema \/ PReturn

SpecSchema == PInit /\ [][SchemaNext]_vars

\* The fixed type table, by data type in upper case
FixedTypeTable ==
    [t \in {"TIMESTAMP", "DOUBLE", "FLOAT", "INT", "LONG", "SHORT", "BYTE",
            "BOOLEAN", "SYMBOL"} |->
        CASE t = "TIMESTAMP" -> "timestamp[us, tz=UTC]"
          [] t = "DOUBLE" -> "float64"
          [] t = "FLOAT" -> "float32"
          [] t = "INT" -> "int32"
          [] t = "LONG" -> "int64"
          [] t = "SHORT" -> "int16"
          [] t = "BYTE" -> "int8"
          [] t = "BOOLEAN" -> "bool"
          [] t = "SYMBOL" -> "string"]

\* The positions of the reported columns that are not the row identity
PublicColumns(cols) ==
    {i \in 1..Len(cols) : cols[i].name \notin {"_rowid", "_ROWID"}}

\* C20: schema resolution. When the store reports no column, table_schema
\* invokes the failure continuation and not the schema continuation; otherwise
\* it delivers the reported columns in ordinal order without the row identity
\* (whatever its case), each with the type the fixed table gives its data
\* type, and string for a data type that is unknown or missing.
C20_SchemaResolution ==
    (pcall.op = "table_schema" /\ pcall.fault = "none") =>
        IF pcall.columns = <<>>
        THEN pcall.succ = 0 /\ pcall.fail = 1
        ELSE /\ pcall.succ = 1
             /\ Len(pcall.schema) = Cardinality(PublicColumns(pcall.columns))
             /\ \A i \in PublicColumns(pcall.columns) :
                  LET k == Cardinality({j \in PublicColumns(pcall.columns) : j <= i})
                      dtype == pcall.columns[i].dtype
                      known == IF dtype = "double" THEN "DOUBLE" ELSE dtype
                  IN /\ pcall.schema[k].name = pcall.columns[i].name
                     /\ pcall.schema[k].type =
                            IF known \in DOMAIN FixedTypeTable
                            THEN FixedTypeTable[known] ELSE "string"

\* C20 witness: the store reports _ROWID and a column of a type the table
\* does not know; the schema delivered has that column alone, as a string
C20_Witness ==
    /\ pcall.op = "table_schema" /\ pcall.fault = "none" /\ pcall.succ = 1
    /\ pcall.columns = <<[name |-> "_ROWID", dtype |-> "LONG"],
                         [name |-> "price", dtype |-> "TIMESTAMP_NS"]>>
    /\ pcall.schema = <<[name |-> "price", type |-> "string"]>>

\* =========================================================================
\*  Write side, the ILP lines of QuestDBWriterQueued as text
\* =========================================================================
\* A text is a sequence of tokens: a character that matters to the line
\* format (double quote, backslash, newline, space) is a token of its own,
\* any other run of characters is one token.
Chars == {"a", "\"", "\n"}
Strs == UNION {[1..n -> Chars] : n \in 0..MaxStr}
TagValues == {<<"a">>, <<"b">>}

\* sep.join(parts)
RECURSIVE Join(_, _)
Join(parts, sep) ==
    IF parts = <<>> THEN <<>>
    ELSE IF Len(parts) = 1 THEN Head(parts)
    ELSE Head(parts) \o sep \o Join(Tail(parts), sep)

\* text.replace('"', '\\"')
RECURSIVE EscapeQuotes(_)
EscapeQuotes(text) ==
    IF text = <<>> THEN <<>>
    ELSE (IF Head(text) = "\"" THEN <<"\\", "\"">> ELSE <<Head(text)>>)
             \o EscapeQuotes(Tail(text))

\* json.dumps of a list of n [price, size] pairs of floats
JsonLevels(n) == <<"[">> \o Join([i \in 1..n |-> <<"[1.0, 1.0]">>], <<", ">>) \o <<"]">>

\* write_trade: the line for a trade; trade_id goes between double quotes as it is
TradeLine(exchange, symbol, has_id, trade_id) ==
    LET tags == <<"exchange=">> \o exchange \o <<",symbol=">> \o symbol
                    \o <<",side=buy,type=unknown">>
        fields == <<"price=1,amount=1">>
                    \o (IF has_id THEN <<",trade_id=", "\"">> \o trade_id \o <<"\"">>
                        ELSE <<>>)
    IN <<"trades", ",">> \o tags \o <<" ">> \o fields \o <<" ", "1000", "\n">>

\* write_orderbook: one price and one size field per level, joined by commas
OrderbookLine(exchange, symbol, n_bids, n_asks) ==
    LET tags == <<"exchange=">> \o exchange \o <<",symbol=">> \o symbol
        bid_fields == [i \in 1..(2 * n_bids) |-> <<"bid_i_x=1">>]
        ask_fields == [i \in 1..(2 * n_asks) |-> <<"ask_i_x=1">>]
        fields_str == Join(bid_fields \o ask_fields, <<",">>)
    IN <<"orderbooks", ",">> \o tags \o <<" ">> \o fields_str \o <<" ", "1000", "\n">>

\* write_orderbook_compact: the two JSON arrays, quotes escaped, between
\* double quotes
CompactLine(exchange, symbol, n_bids, n_asks) ==
    LET tags == <<"exchange=">> \o exchange \o <<",symbol=">> \o symbol
        bids_escaped == EscapeQuotes(JsonLevels(n_bids))
        asks_escaped == EscapeQuotes(JsonLevels(n_asks))
        fields == <<"bids=", "\"">> \o bids_escaped \o <<"\"", ",asks=", "\"">>
                      \o asks_escaped \o <<"\"">>
    IN <<"orderbooks_compact", ",">> \o tags \o <<" ">> \o fields \o <<" ", "1000", "\n">>

\* The receiver cuts the byte stream after every newline
RECURSIVE SplitLines(_, _)
SplitLines(data, cur) ==
    IF data = <<>> THEN (IF cur = <<>> THEN <<>> ELSE <<cur>>)
    ELSE IF Head(data) = "\n" THEN <<Append(cur, "\n")>> \o SplitLines(Tail(data), <<>>)
    ELSE SplitLines(Tail(data), Append(cur, Head(data)))

\* A producer builds the line of a trade
BuildTradeLine ==
    /\ ~wire.joined
    /\ Len(wire.lines) < MaxBatch
    /\ \E exchange, symbol \in TagValues, has_id \in BOOLEAN :
       \E trade_id \in (IF has_id THEN Strs ELSE {<<>>}) :
         wire' = [wire EXCEPT !.lines = Append(@,
                     [kind |-> "trade", strings |-> IF has_id THEN <<trade_id>> ELSE <<>>,
                      line |-> TradeLine(exchange, symbol, has_id, trade_id)])]
    /\ UNCHANGED notWire

\* A producer builds the line of an order book snapshot
BuildOrderbookLine ==
    /\ ~wire.joined
    /\ Len(wire.lines) < MaxBatch
    /\ \E exchange, symbol \in TagValues, n_bids, n_asks \in 0..MaxLevels :
         wire' = [wire EXCEPT !.lines = Append(@,
                     [kind |-> "orderbook", strings |-> <<>>,
                      line |-> OrderbookLine(exchange, symbol, n_bids, n_asks)])]
    /\ UNCHANGED notWire

\* A producer builds the line of a compact order book snapshot
BuildCompactLine ==
    /\ ~wire.joined
    /\ Len(wire.lines) < MaxBatch
    /\ \E exchange, symbol \in TagValues, n_bids, n_asks \in 0..MaxLevels :
         wire' = [wire EXCEPT !.lines = Append(@,
                     [kind |-> "compact",
                      strings |-> <<JsonLevels(n_bids), JsonLevels(n_asks)>>,
                      line |-> CompactLine(exchange, symbol, n_bids, n_asks)])]
    /\ UNCHANGED notWire

\* _writer_loop: batch_data = "".join(batch); the receiver parses what was sent
JoinBatch ==
    /\ ~wire.joined
    /\ wire.lines # <<>>
    /\ LET batch_data == Join([i \in 1..Len(wire.lines) |-> wire.lines[i].line], <<>>)
       IN wire' = [wire EXCEPT !.joined = TRUE, !.parsed = SplitLines(batch_data, <<>>)]
    /\ UNCHANGED notWire

WireNext ==
    \/ BuildTradeLine
    \/ BuildOrderbookLine
    \/ BuildCompactLine
    \/ JoinBatch

SpecWire == PInit /\ [][WireNext]_vars

\* ---------------------------------------------------------------- C21
\* The text is one line: a single newline, at its end
OneLine(l) == l # <<>> /\ l[Len(l)] = "\n" /\ \A i \in 1..(Len(l) - 1) : l[i] # "\n"

\* table,tags fields timestamp: two single spaces with text around each
LineShape(l) ==
    LET sp == {i \in 1..Len(l) : l[i] = " "}
    IN /\ Cardinality(sp) = 2
       /\ \A i \in sp : i > 1 /\ i < Len(l) /\ l[i + 1] \notin {" ", "\n"}

\* The string value stands in the line between double quotes with each of its
\* own double quotes escaped
QuotedEscaped(l, value) ==
    LET q == <<"\"">> \o EscapeQuotes(value) \o <<"\"">>
    IN \E i \in 1..Len(l) :
          /\ i + Len(q) - 1 <= Len(l)
          /\ SubSeq(l, i, i + Len(q) - 1) = q
          /\ l[i + Len(q)] \in {" ", ","}

\* C21: wire format. Every entry built by write_trade, write_orderbook or
\* write_orderbook_compact is one line `table,tags fields timestamp` ending in
\* a single newline, with every string field between double quotes and its
\* inner double quotes escaped; a batch of n entries joined without a
\* delimiter parses back into those n lines in order.
C21_WireFormat ==
    /\ \A i \in 1..Len(wire.lines) :
         LET e == wire.lines[i]
         IN /\ OneLine(e.line)
            /\ LineShape(e.line)
            /\ \A k \in 1..Len(e.strings) : QuotedEscaped(e.line, e.strings[k])
    /\ wire.joined => wire.parsed = [i \in 1..Len(wire.lines) |-> wire.lines[i].line]

\* ---------------------------------------------------------------- C22
\* C22: exactly one background writer task. However often start() is called,
\* and in whatever order with the write_* calls, at most one _writer_loop
\* task is ever created, and it is the one self.writer_task refers to.
C22_OneWriterTask ==
    /\ tasks.created <= 1
    /\ tasks.created = 1 <=> writer_task = "task"

\* C22 witness: start() was called again after the task existed, write_*
\* calls were made and the one task has taken entries off the queue
C22_Witness ==
    /\ tasks.again
    /\ tasks.created = 1
    /\ drained
    /\ events > 0

\* =========================================================================
\*  Write side, QuestDBWriter (questdb_writer.py): the SDK sender
\* =========================================================================
\* sdk.sender is self._sender ("none" for None); pending counts the rows the
\* sender has buffered; closes, exits, released and raised record the close()
\* calls made, the __exit__ calls made, those that returned, and whether a
\* close() raised to its caller.

\* QuestDBWriter(host, ilp_port, protocol, verbose): Sender.from_conf(conf)
\* and __enter__()
SdkConstruct ==
    /\ ~sdk.made
    /\ \E protocol \in {"http", "tcp"}, verbose \in BOOLEAN :
         sdk' = [sdk EXCEPT !.made = TRUE, !.sender = "entered",
                            !.protocol = protocol, !.verbose = verbose]
    /\ UNCHANGED notSdk

\* write_trade / write_orderbook: self._sender.row(...) buffers a row; after
\* close() the attribute error is caught and printed
SdkWrite ==
    /\ sdk.made
    /\ sdk.written < MaxEvents
    /\ sdk' = [sdk EXCEPT !.written = @ + 1,
                          !.pending = IF sdk.sender = "none" THEN @ ELSE @ + 1]
    /\ UNCHANGED notSdk

\* flush(): if self._sender: self._sender.flush(); the rows leave the buffer
\* when the store takes them
flush ==
    /\ sdk.made
    /\ sdk.sender # "none"
    /\ sdk.pending > 0
    /\ sdk' = [sdk EXCEPT !.pending = 0]
    /\ UNCHANGED notSdk

\* self._sender.__exit__(None, None, None): flushes what is buffered and
\* releases the sender; it raises when buffered rows cannot be delivered.
\* Result: did it return, and what is left in the buffer.
SenderExit(pending, store_ok) ==
    IF pending = 0 \/ store_ok THEN [returned |-> TRUE, pending |-> 0]
    ELSE [returned |-> FALSE, pending |-> pending]

\* close(): if self._sender: self._sender.__exit__(None, None, None);
\*          self._sender = None
close ==
    /\ sdk.made
    /\ sdk.closes < MaxCloses
    /\ \E store_ok \in BOOLEAN :
         LET x == SenderExit(sdk.pending, store_ok)
         IN sdk' = IF sdk.sender = "none"
                   THEN [sdk EXCEPT !.closes = @ + 1]
                   ELSE IF x.returned
                   THEN [sdk EXCEPT !.closes = @ + 1, !.exits = @ + 1,
                                    !.released = @ + 1, !.pending = x.pending,
                                    !.sender = "none"]
                   ELSE [sdk EXCEPT !.closes = @ + 1, !.exits = @ + 1,
                                    !.raised = TRUE]
    /\ UNCHANGED notSdk

SdkNext ==
    \/ SdkConstruct
    \/ SdkWrite
    \/ flush
    \/ close

SpecSdk == PInit /\ [][SdkNext]_vars

\* ---------------------------------------------------------------- C23
\* C23: close() is idempotent. However often close() is called after
\* construction, no call raises, the sender is released exactly once, and the
\* writer is in the same closed state after the first call as after any later.
C23_CloseIdempotent ==
    /\ ~sdk.raised
    /\ sdk.closes >= 1 => (sdk.sender = "none" /\ sdk.released = 1 /\ sdk.exits = 1)

\* ---------------------------------------------------------------- C24
\* C24: re-subscription ordering. A subscribe call that finds a watcher for
\* the table sets that watcher's stop event and then joins it; a thread is
\* started only by a call that has left its join (the old thread ended or the
\* join timed out) with the old stop event set; a join that overruns lets the
\* call go on; and when the call returns the instance's entry is the thread
\* it started.
C24_ResubscribeOrdering ==
    /\ [][\A c \in Callers :
            (caller[c].pc = "sub_lock" /\ caller'[c].pc # "sub_lock"
                /\ active[caller[c].inst] # 0) =>
                /\ caller'[c].pc = "sub_join"
                /\ caller'[c].old = active[caller[c].inst]
                /\ stop_ev'[active[caller[c].inst]]
                /\ thread' = thread]_vars
    /\ [][\A c \in Callers :
            (caller[c].pc = "sub_join" /\ caller'[c].pc # "sub_join") =>
                caller'[c].pc = "sub_start" /\ thread' = thread]_vars
    /\ [](\A c \in Callers :
            (caller[c].pc = "sub_join" /\ thread[caller[c].old] = "live") =>
                ENABLED SubJoinTimeout(c))
    /\ [][\A t \in 1..MaxThreads :
            (thread[t] = "new" /\ thread'[t] = "live") =>
                \E c \in Callers :
                    /\ caller[c].pc = "sub_start"
                    /\ caller'[c].pc = "sub_record" /\ caller'[c].t = t
                    /\ caller[c].old # 0 => stop_ev[caller[c].old]]_vars
    /\ [][\A c \in Callers :
            (caller[c].pc = "sub_record" /\ caller'[c].pc = "idle") =>
                /\ active'[caller[c].inst] = caller[c].t
                /\ <<caller[c].inst, caller[c].t>> \in unsubs']_vars

\* C24 witness: the join of the old watcher overran (it is still alive, its
\* stop event set) and the call has returned with the new watcher recorded
C24_Witness ==
    /\ caller["c1"].pc = "idle"
    /\ thread[1] = "live" /\ stop_ev[1]
    /\ thread[2] = "live" /\ ~stop_ev[2]
    /\ active[1] = 2
    /\ <<1, 2>> \in unsubs

\* ---------------------------------------------------------------- C25
\* A caller blocked in a watcher join
Joining(c) == caller[c].pc \in {"sub_join", "cl_join", "ca_join"}

\* C25: no lock is held while joining a thread. A caller blocked in a join of
\* subscribe_to_table_location_size, cleanup or cleanup_all holds neither the
\* registry lock nor an instance lock.
C25_NoLockWhileJoining ==
    \A c \in Callers :
        Joining(c) => (global_lock # c /\ \A i \in 1..MaxInst : inst_lock[i] # c)

\* ---------------------------------------------------------------- C26
\* The steps of caller c, whatever call it is in
CallerStep(c) ==
    \/ get_or_create(c)
    \/ subscribe_to_table_location_size(c)
    \/ unsubscribe(c)
    \/ cleanup(c)
    \/ cleanup_all(c)

\* Backends obtained, cleaned up and let go of by their users
RefsNext ==
    \E c \in Callers :
        \/ get_or_create(c)
        \/ CleanupSignal(c)
        \/ CleanupUnregister(c)
        \/ DropRef(c)

SpecRefs == BInit /\ [][RefsNext]_vars

\* The thread holding a lock that caller c needs for its next step
Blocker(c) ==
    IF caller[c].pc \in {"cl_unreg", "del_unreg"} THEN global_lock
    ELSE IF caller[c].pc = "sub_lock" \/ caller[c].pc = "sub_record"
         THEN inst_lock[caller[c].inst]
    ELSE IF caller[c].pc = "ca_inst" THEN inst_lock[caller[c].todo]
    ELSE "free"

\* C26: deadlock freedom of the registry. A caller inside a call can take its
\* next step, or it waits for a lock whose holder is another thread that can
\* take its next step; no thread waits for itself or for a waiting thread.
C26_NoDeadlock ==
    \A c \in Callers :
        (caller[c].pc # "idle" /\ ~ENABLED CallerStep(c)) =>
            /\ Blocker(c) \in Callers \ {c}
            /\ ENABLED CallerStep(Blocker(c))

\* ---------------------------------------------------------------- C27
\* C27: notify only on growth. After the initial delivery a size callback is
\* made, and the last observed size changed, only with a total strictly above
\* the last observed size.
C27_NotifyOnlyOnGrowth ==
    /\ [][(watch.sizes # <<>> /\ Len(watch'.sizes) > Len(watch.sizes)) =>
            watch'.sizes[Len(watch'.sizes)] > watch.last_size]_vars
    /\ [][(watch.succ = 1 /\ watch'.last_size # watch.last_size) =>
            (watch'.last_size > watch.last_size
                /\ Len(watch'.sizes) > Len(watch.sizes))]_vars

\* ---------------------------------------------------------------- C28
\* The transactions a poll of the log reads: those after last_txn_id
NewTransactions == SubSeq(txns, watch.last_txn_id + 1, Len(txns))

\* Every one of the transactions carries a row count
AllCounted(ts) == \A i \in 1..Len(ts) : ts[i].rc # NULL

\* C28: row-count summation needs every new transaction to carry a count. A
\* poll that finds new transactions takes last total + sum of their row
\* counts as the new total only if each of them has a row count; if one
\* lacks it the poll goes on to a full count.
C28_SumNeedsEveryCount ==
    [][(watch.pc = "poll" /\ watch.use_wal_tracking /\ NewTransactions # <<>>
           /\ watch'.pc \notin {"poll", "done"}) =>
            IF AllCounted(NewTransactions)
            THEN /\ watch'.pc = "notify"
                 /\ watch'.current_size =
                        watch.last_size + SeqSum(RowCounts(NewTransactions))
            ELSE watch'.pc = "poll_count"]_vars

\* ---------------------------------------------------------------- C30
\* C30: transactions are consumed in id order, each once. last_txn_id never
\* decreases; a poll of the log reads the transactions after last_txn_id and
\* moves last_txn_id to the highest id read; and a total obtained by summation
\* is the last total plus the rows of exactly the transactions read, none
\* skipped and none counted twice.
C30_EachTransactionOnce ==
    /\ [][watch'.last_txn_id >= watch.last_txn_id]_vars
    /\ [][(watch.pc = "poll" /\ watch.use_wal_tracking
            /\ watch'.last_txn_id # watch.last_txn_id) =>
              watch'.last_txn_id = Len(txns)]_vars
    /\ [][(watch.pc = "poll" /\ watch.use_wal_tracking /\ watch'.pc = "notify") =>
            watch'.current_size = watch.last_size
                + SeqSum([i \in 1..Len(NewTransactions) |-> NewTransactions[i].rows])]_vars

\* ---------------------------------------------------------------- C28, C30
\* The log of a table that already received data before the watcher starts:
\* transactions committed and applied, with any mix of row counts
PriorLogs == UNION {[1..n -> TxnKinds] : n \in 0..MaxPrior}

\* The watcher thread has been started on a table that may already hold data
KStartPrior ==
    /\ txns \in PriorLogs
    /\ applied = Len(txns)
    /\ wal_enabled \in BOOLEAN
    /\ stop_event = FALSE
    /\ watch = WatchLocals("init")

KInitPrior == WIdle /\ PIdle /\ KStartPrior /\ BIdle /\ XIdle

\* A writer commits a transaction to the log of such a table
CommitNew ==
    /\ Len(txns) < MaxPrior + MaxTxns
    /\ \E k \in TxnKinds : txns' = Append(txns, k)
    /\ UNCHANGED <<applied, wal_enabled, stop_event, watch>>
    /\ UNCHANGED notWatcher

KPriorNext ==
    \/ CommitNew
    \/ Apply
    \/ StopWatcher
    \/ WatcherStep

SpecWatchPrior == KInitPrior /\ [][KPriorNext]_vars

\* ---------------------------------------------------------------- C29
\* C29: full counts are change-triggered only. After the initial setup, a step
\* of the watcher loop issues a count(*) query only in a poll iteration in
\* which the log holds a transaction with id above last_txn_id; this in
\* transaction tracking and in count polling alike.
C29_CountOnlyOnChange ==
    [][(watch.pc \in {"poll", "poll_count"} /\ watch'.full_count /\ ~watch.full_count) =>
            (watch.pc = "poll_count" \/ Len(txns) > watch.last_txn_id)]_vars

\* ---------------------------------------------------------------- C31
\* C31: batch composition. Every batch handed to sendall holds between 1 and
\* batch_size entries; the first is the head of the queue when the wait
\* returns, the others are the entries then at the head of the queue, in queue
\* order, taken without waiting (the drain can always run and leaves the rest
\* queued); a send transmits exactly that batch as one write.
C31_BatchComposition ==
    /\ [](wpc = "sending" => (1 <= Len(batch) /\ Len(batch) <= batch_size))
    /\ [](\A i \in 1..Len(sent) : 1 <= Len(sent[i]) /\ Len(sent[i]) <= batch_size)
    /\ [](wpc = "drain" => ENABLED Drain)
    /\ [][(wpc = "get" /\ wpc' = "drain") =>
            (queue # <<>> /\ batch' = <<Head(queue)>> /\ queue' = Tail(queue))]_vars
    /\ [][(wpc = "drain" /\ wpc' # "drain") =>
            /\ wpc' = "sending"
            /\ batch' \o queue' = batch \o queue
            /\ Len(batch') = Min(batch_size, Len(batch) + Len(queue))]_vars
    /\ [][(sent' # sent) => (wpc = "sending" /\ sent' = Append(sent, batch))]_vars

\* C31 witness: a full batch of batch_size = 2 entries was transmitted as one
\* write while a further entry stayed in the queue
C31_Witness ==
    /\ batch_size = 2
    /\ sent # <<>> /\ Len(sent[Len(sent)]) = 2
    /\ queue # <<>>
    /\ wpc = "top"

\* ---------------------------------------------------------------- C32
\* The entries of a failed batch that fit into the free room of the queue
Refit(q, b) == SubSeq(b, 1, Min(Len(b), Max(0, max_queue_size - Len(q))))

C33_StaleUnsubscribe ==
    [][\A i \in 1..MaxInst :
          (active[i] # 0 /\ active'[i] = 0 /\ caller' = caller) =>
              stop_ev'[active[i]]]_vars

\* ---------------------------------------------------------------- C34
\* C34: cleanup() only unregisters itself. The unregister step of cleanup() on
\* an instance removes the registry entry of the table name only when that
\* entry maps to this instance; an entry that maps to a later instance stays.
C34_UnregistersOnlyItself ==
    [][\A c \in Callers :
          (caller[c].pc = "cl_unreg" /\ caller'[c].pc # "cl_unreg" /\ registry # 0
              /\ registry # caller[c].inst) => registry' = registry]_vars

\* ---------------------------------------------------------------- C35
\* C35: cleanup_all() is safe on an empty registry and idempotent: no call of
\* cleanup_all raises, whether or not a backend is registered, and the
\* registry is empty when it returns.
C35_CleanupAllSafe ==
    /\ \A r \in raised : r.op # "cleanup_all"
    /\ after_cleanup.done => after_cleanup.registry = 0

\* ---------------------------------------------------------------- C36
\* C36: transmission preserves enqueue order. Entries carry their enqueue
\* rank as id; of two transmitted entries the one enqueued first is in the
\* same successful write as the other or in an earlier one.
C36_OrderPreserved ==
    \A i, j \in 1..Len(sent) :
        \A a \in Range(sent[i]), b \in Range(sent[j]) :
            a < b => i <= j

\* ---------------------------------------------------------------- C37
\* Writer steps left, at most, until the loop has exited once running is False:
\* the iteration in progress is finished and the next loop test ends the task
StepsToDone ==
    CASE wpc = "done" -> 0
      [] wpc = "top" -> 1
      [] wpc \in {"backoff", "conn_sleep"} -> 2
      [] wpc = "sending" -> 3
      [] wpc = "drain" -> 4
      [] wpc = "get" -> 5
      [] OTHER -> 6

\* C37: stop() terminates. stop() clears running; from then on the started
\* writer task can always take its next step, every step brings it closer to
\* the exit, the loop test that follows the iteration in progress ends the
\* task, and once the task has ended (or was never started) stop() can return;
\* this with the writer connected and idle, with a batch in flight, and
\* disconnected in a back-off.
C37_StopTerminates ==
    /\ [](stop_pc # "idle" => ~running)
    /\ []((~running /\ writer_task = "task" /\ wpc # "done") => ENABLED WriterStep)
    /\ [][(~running /\ wpc' # wpc) => StepsToDone' < StepsToDone]_vars
    /\ [][(~running /\ wpc = "top" /\ wpc' # "top") => wpc' = "done"]_vars
    /\ []((stop_pc = "await" /\ wpc \in {"none", "done"}) => ENABLED StopReturn)
    /\ [][(stop_pc = "await" /\ stop_pc' # "await") =>
            (stop_pc' = "returned" /\ wpc \in {"none", "done"})]_vars

\* With the writer task and the awaiting stop() scheduled, a stop() that was
\* called returns
SpecWriterStopLive ==
    /\ WInit
    /\ [][WNext]_vars
    /\ WF_vars(WriterStep)
    /\ WF_vars(StopReturn)

C37_StopReturns == (stop_pc = "await") ~> (stop_pc = "returned")

\* C37 witness: stop() was called on a started writer after a failed write
\* and has returned with the loop exited
C37_Witness ==
    /\ stop_pc = "returned"
    /\ writer_task = "task"
    /\ wpc = "done"
    /\ retried # {}
    /\ ~running

\* ---------------------------------------------------------------- C38
\* C38: stop() loses nothing silently. When stop() has returned on a writer
\* whose task was consuming the queue, every entry that was accepted into the
\* queue before stop() was called has been transmitted in a successful write
\* or counted in the dropped counter.
C38_StopLosesNothing ==
    (stop_pc = "returned" /\ drained /\ wpc = "done") =>
        /\ at_stop \subseteq (SentIds \cup Range(dropped_ids))
        /\ dropped_count = Len(dropped_ids)

\* ---------------------------------------------------------------- C39
\* C39: queue and counter invariant. The queue never holds more than
\* max_queue_size entries; the dropped counter never decreases; and it counts
\* exactly the rejected puts, of producers and of the writer's re-enqueues:
\* every line handed to put_nowait is in the queue, in the batch in flight,
\* transmitted, or one of the drops counted.
C39_QueueAndCounter ==
    /\ [](0 <= Len(queue) /\ Len(queue) <= max_queue_size)
    /\ [](dropped_count = Len(dropped_ids))
    /\ [](Cardinality(offered) =
            Len(queue) + Len(batch) + Len(Flatten(sent)) + dropped_count)
    /\ [][dropped_count' >= dropped_count]_vars

\* C39 witness: the queue is full and the counter holds one drop of a
\* producer's enqueue and one drop of a re-enqueue after a failed write
C39_Witness ==
    /\ Len(queue) = max_queue_size
    /\ dropped_count = 2
    /\ \E e, f \in Range(dropped_ids) : e \in retried /\ f \notin accepted

\* ---------------------------------------------------------------- C40
\* The page column_values delivers for a range, under numbering p of table t
PageOf(t, p, col, offset, max_rows) ==
    LET rows == SelectRange(t, p, col, offset, offset + max_rows)
    IN [i \in 1..Len(rows) |-> Convert(col, rows[i])]

\* C40: pages are stable under appends. When a row is appended to a table of
\* S rows, whatever its ordering value, every range inside rows 1..S reads the
\* same values after the append as before (ordering values distinct, so that
\* the numbering is unique).
C40_PagesStable ==
    [][(Len(tbl') = Len(tbl) + 1 /\ StrictOrder(tbl')) =>
          \A p \in Numberings(tbl), q \in Numberings(tbl') :
          \A col \in {"ts", "id"}, offset \in 0..MaxRows, max_rows \in 1..MaxPage :
              offset + max_rows <= Len(tbl) =>
                  PageOf(tbl', q, col, offset, max_rows)
                      = PageOf(tbl, p, col, offset, max_rows)]_vars
====
